---- MODULE Spec2Model ----
(***************************************************************************)
(* Plan-generation service of the fitness coach server.                    *)
(*                                                                         *)
(*   POST /api/coach/generate-plan  ->  runPlanGraph  ->  the four nodes   *)
(*   sanitizeProfile, buildPrompt, generatePlan, persistPlan of the        *)
(*   compiled StateGraph, over the Firestore collection 'plans'.           *)
(*                                                                         *)
(* The chat, statistics and video-search endpoints and the tools of the    *)
(* chat graph follow, each handler as one step (ApiSpec), and the          *)
(* statistics aggregator on its own (StatsSpec).                           *)
(*                                                                         *)
(* The client side follows: the member App with its plan effect and the    *)
(* onboarding handler (AppSpec), the client's generateFitnessPlan against  *)
(* the server (ClientSpec), the reservation screen (ReservationSpec), the  *)
(* gym store (GymSpec) and the Kakao SDK loader (KakaoSpec, and            *)
(* KakaoLiveSpec with the browser's events delivered).                     *)
(*                                                                         *)
(* JSON values are tagged records (Undef, Null, Num, Str).  A string is a  *)
(* sequence of tokens, each either a blank (" " or a line break) or a      *)
(* chunk of non-blank characters, so that trim() and min(1) are computed.  *)
(***************************************************************************)
EXTENDS Integers, Sequences, FiniteSets, TLC

\* ------------------------------------------------------------------ bounds
NumRuns == 2

\* program constants
BodyFatMax == 100
PlanDays == 7

Runs == 1..NumRuns
Members == {"m1", "m2"}

\* reservation documents the model lets the collection hold
MaxReservations == 3

\* createGym, updateGym and deleteGym calls in one behaviour
MaxGymCalls == 3

\* loadKakaoMaps calls in one behaviour
MaxCalls == 4

\* ------------------------------------------------------------- JSON values
Undef == [t |-> "undefined"]
Null == [t |-> "null"]
Num(n) == [t |-> "number", n |-> n]
Str(s) == [t |-> "string", s |-> s]

IsNullish(v) == v.t \in {"undefined", "null"}

RECURSIVE TrimStart(_)
TrimStart(s) ==
  IF s = <<>> THEN s
  ELSE IF Head(s) \in {" ", "\n"} THEN TrimStart(Tail(s)) ELSE s

RECURSIVE TrimEnd(_)
TrimEnd(s) ==
  IF s = <<>> THEN s
  ELSE IF s[Len(s)] \in {" ", "\n"} THEN TrimEnd(SubSeq(s, 1, Len(s) - 1)) ELSE s

\* String.prototype.trim
Trim(s) == TrimEnd(TrimStart(s))

\* String(x) for the values a goal can carry
ToStringJS(v) ==
  IF v.t = "string" THEN v.s ELSE <<"digits">>

\* ------------------------------------------------------ UserProfileSchema
\* z.string().min(1)
ZString1(v) == v.t = "string" /\ Len(v.s) >= 1

\* z.number().positive()
ZPositive(v) == v.t = "number" /\ v.n > 0

ZBodyFatNoMax(v) == v.t = "undefined" \/ (v.t = "number" /\ v.n >= 0)

\* z.number().nonnegative().max(100).optional()
ZBodyFat(v) == v.t = "undefined" \/ (v.t = "number" /\ v.n >= 0 /\ v.n <= BodyFatMax)

\* z.string().optional()
ZOptString(v) == v.t \in {"undefined", "string"}

\* z.enum(['home', 'gym']).default('home')
ZPreference(v) == v.t = "undefined" \/ v = Str(<<"home">>) \/ v = Str(<<"gym">>)

UserProfileSchemaOk(p) ==
  /\ ZString1(p.goal)
  /\ ZPositive(p.height)
  /\ ZPositive(p.weight)
  /\ ZBodyFat(p.bodyFat)
  /\ ZOptString(p.healthConditions)
  /\ ZPreference(p.workoutPreference)
  /\ ZOptString(p.availableEquipment)

\* the value UserProfileSchema.parse returns for an input that passes
UserProfileSchemaParse(p) ==
  [p EXCEPT !.workoutPreference =
     IF p.workoutPreference.t = "undefined" THEN Str(<<"home">>) ELSE p.workoutPreference]

\* x?.trim() throws a TypeError when x is neither nullish nor a string
OptTrimThrows(v) == ~IsNullish(v) /\ v.t # "string"

\* x?.trim() || undefined
OptTrim(v) ==
  IF IsNullish(v) THEN Undef
  ELSE IF Trim(v.s) = <<>> THEN Undef ELSE Str(Trim(v.s))

\* String(profileInput.goal ?? 'weightLoss').trim()
CoerceGoal(v) ==
  Str(Trim(IF IsNullish(v) THEN <<"weightLoss">> ELSE ToStringJS(v)))

\* sanitizeProfileNode: [ok, profile] ; ok = FALSE when it throws
SanitizeProfile(profileInput) ==
  IF OptTrimThrows(profileInput.healthConditions)
     \/ OptTrimThrows(profileInput.availableEquipment)
  THEN [ok |-> FALSE, profile |-> Undef]
  ELSE LET coerced == [profileInput EXCEPT
                         !.goal = CoerceGoal(profileInput.goal),
                         !.healthConditions = OptTrim(profileInput.healthConditions),
                         !.availableEquipment = OptTrim(profileInput.availableEquipment)]
       IN IF UserProfileSchemaOk(coerced)
          THEN [ok |-> TRUE, profile |-> UserProfileSchemaParse(coerced)]
          ELSE [ok |-> FALSE, profile |-> Undef]

\* ------------------------------------------------------------ buildPrompt
GoalLabel(goal) ==
  CASE goal = <<"weightLoss">> -> <<"Weight Loss">>
    [] goal = <<"muscleGain">> -> <<"Muscle Gain">>
    [] goal = <<"rehab">> -> <<"Rehabilitation & Mobility">>
    [] OTHER -> goal

BuildPrompt(profile) ==
  [goal |-> GoalLabel(profile.goal.s),
   height |-> profile.height.n,
   weight |-> profile.weight.n,
   bodyFat |-> IF IsNullish(profile.bodyFat) THEN Str(<<"Not provided">>) ELSE profile.bodyFat,
   health |-> IF IsNullish(profile.healthConditions) THEN Str(<<"None">>)
              ELSE profile.healthConditions,
   preference |-> IF profile.workoutPreference = Str(<<"home">>) THEN "At home" ELSE "At the gym",
   equipment |-> IF IsNullish(profile.availableEquipment) THEN Str(<<"Basic bodyweight">>)
                 ELSE profile.availableEquipment]

\* ------------------------------------------------------ FitnessPlanSchema
\* ExerciseSchema: name min(1), sets a positive integer
ExerciseOk(e) == e.name # "" /\ e.sets > 0

WorkoutDayOkNoMin(d) ==
  /\ d.day # ""
  /\ d.focus # ""
  /\ \A i \in 1..Len(d.exercises) : ExerciseOk(d.exercises[i])

\* WorkoutDaySchema: day and focus min(1), exercises array min(1)
WorkoutDayOk(d) ==
  /\ d.day # ""
  /\ d.focus # ""
  /\ Len(d.exercises) >= 1
  /\ \A i \in 1..Len(d.exercises) : ExerciseOk(d.exercises[i])

\* DietDaySchema: day min(1), dailyTotal.calories a non-negative integer
DietDayOk(d) == d.day # "" /\ d.calories >= 0

\* FitnessPlanSchema: both arrays min(1)
FitnessPlanSchemaOk(p) ==
  /\ Len(p.workoutPlan) >= 1
  /\ \A i \in 1..Len(p.workoutPlan) : WorkoutDayOk(p.workoutPlan[i])
  /\ Len(p.dietPlan) >= 1
  /\ \A i \in 1..Len(p.dietPlan) : DietDayOk(p.dietPlan[i])

\* ------------------------------------------------------------ plans store
NoPlan == [absent |-> TRUE]

PlanLeaves == {"plan.workoutPlan", "plan.dietPlan"}

PayloadWorkoutOnly(plan, updatedAt) ==
  [f \in {"plan.workoutPlan", "updatedAt"} |->
     IF f = "plan.workoutPlan" THEN plan.workoutPlan ELSE updatedAt]

\* the payload of persistPlanNode as the leaf fields Firestore writes
Payload(plan, updatedAt) ==
  [f \in PlanLeaves \cup {"updatedAt"} |->
     CASE f = "plan.workoutPlan" -> plan.workoutPlan
       [] f = "plan.dietPlan" -> plan.dietPlan
       [] OTHER -> updatedAt]

\* DocumentReference.set(data) : the document becomes data
SetOverwrite(store, id, data) ==
  [d \in DOMAIN store \cup {id} |-> IF d = id THEN data ELSE store[d]]

\* DocumentReference.set(data, { merge: true }) : the leaves of data replace
\* the stored ones, every other stored field stays
SetMerge(store, id, data) ==
  [d \in DOMAIN store \cup {id} |->
     IF d # id THEN store[d]
     ELSE IF id \notin DOMAIN store THEN data
     ELSE [f \in DOMAIN store[id] \cup DOMAIN data |->
             IF f \in DOMAIN data THEN data[f] ELSE store[id][f]]]

\* the plan field of a stored document (snapshot.data().plan)
PlanField(doc) ==
  IF PlanLeaves \subseteq DOMAIN doc
  THEN [workoutPlan |-> doc["plan.workoutPlan"], dietPlan |-> doc["plan.dietPlan"]]
  ELSE NoPlan

AutoDocId == "auto-id"

PlanDocRefAuto(memberId) == AutoDocId

\* db.collection('plans').doc(memberId)
PlanDocRef(memberId) == memberId

\* ------------------------------------------------------------- the inputs
Day(focus, nExercises) ==
  [day |-> "Mon", focus |-> focus,
   exercises |-> [i \in 1..nExercises |-> [name |-> "squat", sets |-> 3]]]

DietDay == [day |-> "Mon", calories |-> 1600]

PlanOf(focus, nDays, nExercises, nDiet) ==
  [workoutPlan |-> [i \in 1..nDays |-> Day(focus, nExercises)],
   dietPlan |-> [i \in 1..nDiet |-> DietDay]]

PlanA == PlanOf("Full Body", PlanDays, 1, PlanDays)
PlanShort == PlanOf("Full Body", 1, 1, 1)
PlanZeroDays == PlanOf("Full Body", 0, 1, PlanDays)
PlanEmptyExercises == PlanOf("Full Body", PlanDays, 0, PlanDays)
PlanNoDiet == PlanOf("Full Body", PlanDays, 1, 0)

\* structuredModel.invoke rejects (network, quota, unparsable output)
UpstreamFailure == [failed |-> TRUE]

\* what the AI provider can answer a completion request with
Completions ==
  {UpstreamFailure, PlanA, PlanShort, PlanZeroDays, PlanEmptyExercises, PlanNoDiet}

NoProfile == [t |-> "null"]

ValidProfile ==
  [goal |-> Str(<<"weightLoss">>), height |-> Num(175), weight |-> Num(80),
   bodyFat |-> Undef, healthConditions |-> Undef,
   workoutPreference |-> Str(<<"home">>), availableEquipment |-> Undef]

\* the profiles a generate-plan request carries in the pipeline runs
RequestProfiles ==
  {NoProfile, ValidProfile,
   [ValidProfile EXCEPT !.height = Undef],
   [ValidProfile EXCEPT !.bodyFat = Num(150)]}

\* req.body.memberId ; "" stands for an absent or empty one
MemberIdInputs == {""} \cup Members

\* the 'plans' collection before the first request: documents of earlier
\* generations, possibly carrying fields other writers stored under the key
LegacyDoc(plan, note) ==
  [f \in PlanLeaves \cup {"updatedAt", "note"} |->
     CASE f = "plan.workoutPlan" -> plan.workoutPlan
       [] f = "plan.dietPlan" -> plan.dietPlan
       [] f = "updatedAt" -> 0
       [] OTHER -> note]

EmptyStore == [d \in {} |-> NoPlan]

InitStores ==
  {EmptyStore, [d \in Members |-> LegacyDoc(PlanA, d)]}

\* ------------------------------------------------------------------ state
VARIABLES
  pc,          \* per request: "idle", the graph node it is at, "__end__", "responded"
  awaiting,    \* per request: the node is suspended at its await
  state,       \* per request: the PlanState of the graph run
  completion,  \* per request: what structuredModel.invoke resolved with
  stamp,       \* per request: the updatedAt of the payload persistPlan built
  res,         \* per request: the HTTP response sent
  cause,       \* per request: why it was answered with an error
  trace,       \* per request: the nodes that have finished, in order
  aiCalls,     \* per request: completion requests sent to the AI provider
  writes,      \* per request: set() calls issued on the plans collection
  plans,       \* the Firestore collection 'plans': document id -> fields
  lastWriter,  \* per member: the request whose write was applied last (0: none)
  now,         \* the server clock: every reading is later than the one before
  sanInput,    \* the profile handed to the sanitizer under test
  sanResult,   \* its result, or NotRun
  call,        \* the HTTP request or tool invocation handled last, with its outcome
  served,      \* how many of them have been handled
  serverUp,    \* the server process is alive
  threwBefore, \* an earlier one raised an exception while it was handled
  statsIn,     \* the stored entries and logs handed to the statistics aggregator
  statsOut,    \* its result, or NoStats
  app,         \* the member App: its React state, the account, the promises in flight
  fetched,     \* the client's generateFitnessPlan call: what fetch did, what it returned
  resv,        \* the reservation screen: the collection and each member's snapshot
  gymStore,    \* the collection 'gyms' and the last call made on it
  kakao        \* the Kakao SDK loader: module state, document, callers

planVars ==
  <<pc, awaiting, state, completion, stamp, res, cause, trace, aiCalls, writes,
    plans, lastWriter, now>>

sanVars == <<sanInput, sanResult>>

apiVars == <<call, served, serverUp, threwBefore>>

statsVars == <<statsIn, statsOut>>

serverVars == <<planVars, sanVars, apiVars, statsVars>>

clientVars == <<app, fetched, resv, gymStore, kakao>>

vars == <<serverVars, clientVars>>

NoApiResponse == [status |-> 0, body |-> [none |-> TRUE]]

\* nothing handled yet
NoCall ==
  [op |-> "none", input |-> Undef, env |-> Undef, threw |-> FALSE, sent |-> 0,
   res |-> NoApiResponse, aiInvokes |-> 0, toolRuns |-> 0, modelInput |-> <<>>,
   ytSent |-> <<>>, toolOut |-> [kind |-> "none"]]

InitApi ==
  /\ call = NoCall
  /\ served = 0
  /\ serverUp = TRUE
  /\ threwBefore = FALSE

NoStatsIn == [entries |-> <<>>, logs |-> <<>>]

NoStats == [none |-> TRUE]

InitStats ==
  /\ statsIn = NoStatsIn
  /\ statsOut = NoStats

NoResponse == [status |-> 0, plan |-> NoPlan, error |-> FALSE]

NoCompletion == [none |-> TRUE]

NotRun == [ok |-> FALSE, profile |-> Null]

IdleState == [memberId |-> "", profile |-> NoProfile, prompt |-> Undef, plan |-> NoPlan]

InitPlanServer ==
  /\ pc = [r \in Runs |-> "idle"]
  /\ awaiting = [r \in Runs |-> FALSE]
  /\ state = [r \in Runs |-> IdleState]
  /\ completion = [r \in Runs |-> NoCompletion]
  /\ stamp = [r \in Runs |-> 0]
  /\ res = [r \in Runs |-> NoResponse]
  /\ cause = [r \in Runs |-> "none"]
  /\ trace = [r \in Runs |-> <<>>]
  /\ aiCalls = [r \in Runs |-> 0]
  /\ writes = [r \in Runs |-> 0]
  /\ lastWriter = [m \in Members |-> 0]
  /\ now = 0

\* the App as mounted, before its first effect has run: nobody signed in
AppIdle ==
  [user |-> "none", memberProfile |-> "none", appState |-> "onboarding",
   userProfile |-> "none", fitnessPlan |-> "none", planOwnerId |-> "none",
   isGeneratingPlan |-> FALSE, lastDeps |-> <<>>, load |-> "none", gens |-> {},
   docs |-> [m \in Members |-> "none"], stored |-> [m \in Members |-> "none"]]

NoFetch == [none |-> TRUE]

\* the reservation screen: nothing stored, nothing listed, nothing selected
NoReservations ==
  [docs |-> <<>>, list |-> [m \in Members |-> {}], selected |-> [m \in Members |-> <<>>]]

\* the gyms collection: empty, no call made or in flight
NoGyms ==
  [docs |-> <<>>, nextId |-> 1, clock |-> 1, pending |-> {},
   last |-> [n |-> 0, op |-> "none", ownerId |-> "none", gymId |-> 0, outcome |-> "none"]]

\* the loader's module as imported: no script, no global, nothing cached
KakaoIdle ==
  [appKey |-> TRUE, script |-> "none", scripts |-> 0, maps |-> "none", promise |-> 0,
   promises |-> <<>>, callers |-> <<>>, failed |-> FALSE]

InitClient ==
  /\ app = AppIdle
  /\ fetched = NoFetch
  /\ resv = NoReservations
  /\ gymStore = NoGyms
  /\ kakao = KakaoIdle

\* the server side at rest, for the specifications of the client side
InitServer ==
  /\ InitPlanServer
  /\ plans = EmptyStore
  /\ sanInput = ValidProfile
  /\ sanResult = NotRun
  /\ InitApi
  /\ InitStats

Init ==
  /\ InitPlanServer
  /\ plans \in InitStores
  /\ sanInput = ValidProfile
  /\ sanResult = NotRun
  /\ InitApi
  /\ InitStats
  /\ InitClient

\* ------------------------------------------------------------- the graph
EdgeSanitizeLate(node) ==
  CASE node = "__start__" -> "generatePlan"
    [] node = "generatePlan" -> "sanitizeProfile"
    [] node = "sanitizeProfile" -> "buildPrompt"
    [] node = "buildPrompt" -> "persistPlan"
    [] OTHER -> "__end__"

EdgeSkipPersist(node) ==
  CASE node = "__start__" -> "sanitizeProfile"
    [] node = "sanitizeProfile" -> "buildPrompt"
    [] node = "buildPrompt" -> "generatePlan"
    [] OTHER -> "__end__"

\* the edges added to the StateGraph
Edge(node) ==
  CASE node = "__start__" -> "sanitizeProfile"
    [] node = "sanitizeProfile" -> "buildPrompt"
    [] node = "buildPrompt" -> "generatePlan"
    [] node = "generatePlan" -> "persistPlan"
    [] node = "persistPlan" -> "__end__"

\* the node has finished: the run moves along its edge
Finish(r, node) ==
  /\ trace' = [trace EXCEPT ![r] = Append(@, node)]
  /\ pc' = [pc EXCEPT ![r] = Edge(node)]
  /\ awaiting' = [awaiting EXCEPT ![r] = FALSE]

\* the handler's catch: 500 and { error: error.message }
HandlerCatch(why) == [status |-> 500, plan |-> NoPlan, error |-> TRUE]

\* a node throws: invoke rejects, runPlanGraph rejects, the handler catches
Throw(r, why) ==
  /\ res' = [res EXCEPT ![r] = HandlerCatch(why)]
  /\ cause' = [cause EXCEPT ![r] = why]
  /\ pc' = [pc EXCEPT ![r] = "responded"]
  /\ awaiting' = [awaiting EXCEPT ![r] = FALSE]
  /\ UNCHANGED trace

\* POST /api/coach/generate-plan up to the first await, runPlanGraph's own
\* memberId check included
Receive(r) ==
  /\ UNCHANGED <<sanVars, apiVars, statsVars, clientVars>>
  /\ pc[r] = "idle"
  /\ \E memberId \in MemberIdInputs, profile \in RequestProfiles :
       /\ state' = [state EXCEPT ![r] = [@ EXCEPT !.memberId = memberId, !.profile = profile]]
       /\ IF memberId = "" \/ profile = NoProfile
          THEN /\ res' = [res EXCEPT ![r] = [status |-> 400, plan |-> NoPlan, error |-> TRUE]]
               /\ cause' = [cause EXCEPT ![r] = "missing"]
               /\ pc' = [pc EXCEPT ![r] = "responded"]
          ELSE IF memberId = ""
          THEN /\ res' = [res EXCEPT ![r] = HandlerCatch("missing")]
               /\ cause' = [cause EXCEPT ![r] = "missing"]
               /\ pc' = [pc EXCEPT ![r] = "responded"]
          ELSE /\ pc' = [pc EXCEPT ![r] = Edge("__start__")]
               /\ UNCHANGED <<res, cause>>
  /\ UNCHANGED <<awaiting, completion, stamp, trace, aiCalls, writes, plans, lastWriter, now>>

\* sanitizeProfileNode
SanitizeProfileNode(r) ==
  /\ UNCHANGED <<sanVars, apiVars, statsVars, clientVars>>
  /\ pc[r] = "sanitizeProfile"
  /\ LET s == SanitizeProfile(state[r].profile)
     IN IF s.ok
        THEN /\ state' = [state EXCEPT ![r].profile = s.profile]
             /\ Finish(r, "sanitizeProfile")
             /\ UNCHANGED <<res, cause>>
        ELSE /\ Throw(r, "validation")
             /\ UNCHANGED state
  /\ UNCHANGED <<completion, stamp, aiCalls, writes, plans, lastWriter, now>>

\* buildPromptNode
BuildPromptNode(r) ==
  /\ UNCHANGED <<sanVars, apiVars, statsVars, clientVars>>
  /\ pc[r] = "buildPrompt"
  /\ state' = [state EXCEPT ![r].prompt = BuildPrompt(state[r].profile)]
  /\ Finish(r, "buildPrompt")
  /\ UNCHANGED <<completion, stamp, res, cause, aiCalls, writes, plans, lastWriter, now>>

\* generatePlanNode up to its await: the completion request is sent
RequestCompletion(r) ==
  /\ UNCHANGED <<sanVars, apiVars, statsVars, clientVars>>
  /\ pc[r] = "generatePlan"
  /\ ~awaiting[r]
  /\ aiCalls' = [aiCalls EXCEPT ![r] = @ + 1]
  /\ awaiting' = [awaiting EXCEPT ![r] = TRUE]
  /\ UNCHANGED <<pc, state, completion, stamp, res, cause, trace, writes, plans, lastWriter, now>>

CompletionFailedRetry(r, why) ==
  IF aiCalls[r] < 2
  THEN /\ awaiting' = [awaiting EXCEPT ![r] = FALSE]
       /\ UNCHANGED <<pc, res, cause, trace>>
  ELSE Throw(r, why)

\* the invoke rejected or FitnessPlanSchema.parse threw: nothing catches it
\* inside the graph
CompletionFailed(r, why) == Throw(r, why)

\* generatePlanNode from its await on: the provider answers
CompletionArrives(r) ==
  /\ UNCHANGED <<sanVars, apiVars, statsVars, clientVars>>
  /\ pc[r] = "generatePlan"
  /\ awaiting[r]
  /\ \E c \in Completions :
       /\ completion' = [completion EXCEPT ![r] = c]
       /\ IF c = UpstreamFailure
          THEN CompletionFailed(r, "upstream") /\ UNCHANGED state
          ELSE IF ~FitnessPlanSchemaOk(c)
          THEN CompletionFailed(r, "schema") /\ UNCHANGED state
          ELSE /\ state' = [state EXCEPT ![r].plan = c]
               /\ Finish(r, "generatePlan")
               /\ UNCHANGED <<res, cause>>
  /\ UNCHANGED <<stamp, aiCalls, writes, plans, lastWriter, now>>

\* persistPlanNode up to its await: the payload is built and set() is called
PersistPlanStart(r) ==
  /\ UNCHANGED <<sanVars, apiVars, statsVars, clientVars>>
  /\ pc[r] = "persistPlan"
  /\ ~awaiting[r]
  /\ now' = now + 1
  /\ stamp' = [stamp EXCEPT ![r] = now']
  /\ writes' = [writes EXCEPT ![r] = @ + 1]
  /\ awaiting' = [awaiting EXCEPT ![r] = TRUE]
  /\ UNCHANGED <<pc, state, completion, res, cause, trace, aiCalls, plans, lastWriter>>

ApplyWriteNoMerge(store, memberId, plan, updatedAt) ==
  SetOverwrite(store, PlanDocRef(memberId), Payload(plan, updatedAt))

\* docRef.set(payload, { merge: true }) on the member's document
ApplyWrite(store, memberId, plan, updatedAt) ==
  SetMerge(store, PlanDocRef(memberId), Payload(plan, updatedAt))

WriteFailedSwallowed(r) ==
  /\ cause' = [cause EXCEPT ![r] = "persistence"]
  /\ Finish(r, "persistPlan")
  /\ UNCHANGED res

\* set() rejected: persistPlanNode has no catch, the run fails
WriteFailed(r) == Throw(r, "persistence")

\* persistPlanNode from its await on, the write applied
PersistPlanApplied(r) ==
  /\ UNCHANGED <<sanVars, apiVars, statsVars, clientVars>>
  /\ pc[r] = "persistPlan"
  /\ awaiting[r]
  /\ plans' = ApplyWrite(plans, state[r].memberId, state[r].plan, stamp[r])
  /\ lastWriter' = [lastWriter EXCEPT ![state[r].memberId] = r]
  /\ Finish(r, "persistPlan")
  /\ UNCHANGED <<state, completion, stamp, res, cause, aiCalls, writes, now>>

\* persistPlanNode from its await on, the write rejected
PersistPlanRejected(r) ==
  /\ UNCHANGED <<sanVars, apiVars, statsVars, clientVars>>
  /\ pc[r] = "persistPlan"
  /\ awaiting[r]
  /\ WriteFailed(r)
  /\ UNCHANGED <<state, completion, stamp, aiCalls, writes, plans, lastWriter, now>>

\* the graph reached __end__: runPlanGraph resolves, the handler answers
Respond(r) ==
  /\ UNCHANGED <<sanVars, apiVars, statsVars, clientVars>>
  /\ pc[r] = "__end__"
  /\ res' = [res EXCEPT ![r] = [status |-> 200, plan |-> state[r].plan, error |-> FALSE]]
  /\ pc' = [pc EXCEPT ![r] = "responded"]
  /\ UNCHANGED <<awaiting, state, completion, stamp, cause, trace, aiCalls, writes,
                 plans, lastWriter, now>>

Next ==
  \E r \in Runs :
    \/ Receive(r)
    \/ SanitizeProfileNode(r)
    \/ BuildPromptNode(r)
    \/ RequestCompletion(r)
    \/ CompletionArrives(r)
    \/ PersistPlanStart(r)
    \/ PersistPlanApplied(r)
    \/ PersistPlanRejected(r)
    \/ Respond(r)

Spec == Init /\ [][Next]_vars

\* ------------------------------------------------- the sanitizer on its own
GoalInputs ==
  {Undef, Null, Num(5), Str(<<>>), Str(<<" ">>), Str(<<"weightLoss">>),
   Str(<<" ", "custom", " ">>)}

HeightInputs == {Undef, Null, Str(<<"175">>), Num(-5), Num(0), Num(175)}

WeightInputs == {Undef, Num(-1), Num(0), Num(80)}

BodyFatInputs ==
  {Undef, Null, Num(-1), Num(0), Num(50), Num(BodyFatMax), Num(BodyFatMax + 1), Num(150)}

PreferenceInputs == {Undef, Null, Str(<<"home">>), Str(<<"gym">>), Str(<<"office">>)}

TextInputs == {Undef, Null, Num(1), Str(<<>>), Str(<<" ">>), Str(<<"knee", " ">>)}

EquipmentInputs == {Undef, Str(<<"dumbbell">>)}

ProfileInputs ==
  [goal : GoalInputs, height : HeightInputs, weight : WeightInputs,
   bodyFat : BodyFatInputs, healthConditions : TextInputs,
   workoutPreference : PreferenceInputs, availableEquipment : EquipmentInputs]

SanitizeInit ==
  /\ InitPlanServer
  /\ plans = EmptyStore
  /\ sanInput \in ProfileInputs
  /\ sanResult = NotRun
  /\ InitApi
  /\ InitStats
  /\ InitClient

\* one call of sanitizeProfileNode on the drawn input
ApplySanitize ==
  /\ sanResult = NotRun
  /\ sanResult' = SanitizeProfile(sanInput)
  /\ UNCHANGED <<sanInput, planVars, apiVars, statsVars, clientVars>>

SanitizeSpec == SanitizeInit /\ [][ApplySanitize]_vars

\* ------------------------------------------------------- the HTTP handlers
\* how many requests and tool invocations are followed
MaxServed == 2

Bool(b) == [t |-> "boolean", b |-> b]

\* !v of JavaScript for the values a JSON body or a stored field carries
Falsy(v) ==
  \/ IsNullish(v)
  \/ v = Str(<<>>)
  \/ v = Num(0)
  \/ v = Bool(FALSE)

Arr(items) == [t |-> "array", items |-> items]

\* a thrown value and its message property
Err(message) == [message |-> message]

\* the values the awaited libraries reject with
Thrown == {Err(Str(<<"unavailable">>)), Err(Undef)}

\* res.status(status).json(body), once
Answer(status, body) ==
  [sent |-> 1, res |-> [status |-> status, body |-> body], up |-> TRUE]

\* error.message ?? fallback
MessageOr(error, fallback) ==
  IF IsNullish(error.message) THEN Str(<<fallback>>) ELSE error.message

\* content.map(chunk => chunk.text ?? '').join('\n')
RECURSIVE JoinLines(_)
JoinLines(chunks) ==
  LET text == IF IsNullish(Head(chunks).text) THEN <<>> ELSE Head(chunks).text.s
  IN IF chunks = <<>> THEN <<>>
     ELSE IF Len(chunks) = 1 THEN text
     ELSE text \o <<"\n">> \o JoinLines(Tail(chunks))

\* the reply text the chat handler takes from the latest message
TextContent(content) ==
  IF content.t = "array" THEN Str(Trim(JoinLines(content.items))) ELSE content

Msg(role, content) == [role |-> role, content |-> content]

SYSTEM_PROMPT == Str(<<"You are AI Fitness Coach">>)

\* history.filter(...).map(...) of the chat handler
RECURSIVE KeepHistoryItems(_)
KeepHistoryItems(items) ==
  IF items = <<>> THEN <<>>
  ELSE LET item == Head(items)
           keep == /\ item # Null
                   /\ item.role.t = "string"
                   /\ item.content.t = "string"
       IN (IF keep THEN <<Msg(item.role, item.content)>> ELSE <<>>)
            \o KeepHistoryItems(Tail(items))

NormalizedHistoryReversed(history) ==
  IF history.t = "array"
  THEN LET kept == KeepHistoryItems(history.items)
       IN [i \in 1..Len(kept) |-> kept[Len(kept) + 1 - i]]
  ELSE <<>>

\* normalizedHistory: [] for a history that is no array
NormalizedHistory(history) ==
  IF history.t = "array" THEN KeepHistoryItems(history.items) ELSE <<>>

\* an AIMessage of the provider: its content and the tool calls it requests
AIMessage(content, toolCalls) ==
  [failed |-> FALSE, content |-> content, tool_calls |-> toolCalls]

\* model.invoke rejects
ModelFailure(error) == [failed |-> TRUE, error |-> error]

\* what the provider can answer a chat turn with
ModelOutcomes ==
  {ModelFailure(e) : e \in Thrown} \cup
  {AIMessage(Str(<<"Keep", " ", "going">>), <<>>),
   AIMessage(Arr(<<[text |-> Str(<<"Warm", " ", "up">>)], [text |-> Str(<<"Squat", " ">>)]>>), <<>>),
   AIMessage(Str(<<>>), <<"get_member_plan">>),
   AIMessage(Arr(<<[text |-> Undef]>>), <<"search_exercise_videos">>),
   AIMessage(Str(<<"Let", " ", "me", " ", "check">>), <<"get_member_plan">>)}

\* the edges of chatGraph
ChatEdge(node) ==
  CASE node = "__start__" -> "callModel"
    [] node = "callModel" -> "__end__"

\* the tool executions of one pass through chatGraph: callModel is the only
\* node, bindTools declares the tools to the provider and runs none of them
ToolExecutions(response) ==
  IF ChatEdge("callModel") = "__end__" THEN 0 ELSE Len(response.tool_calls)

\* runChatGraph: its own message check, the message list, one pass of the graph
RunChatGraph(memberId, message, history, outcome) ==
  IF Falsy(message)
  THEN [threw |-> TRUE, error |-> Err(Str(<<"message is required for chat.">>)),
        aiInvokes |-> 0, toolRuns |-> 0, modelInput |-> <<>>]
  ELSE LET messages == <<Msg(Str(<<"system">>), SYSTEM_PROMPT)>> \o history
                         \o <<Msg(Str(<<"user">>), message)>>
       IN IF outcome.failed
          THEN [threw |-> TRUE, error |-> outcome.error,
                aiInvokes |-> 1, toolRuns |-> 0, modelInput |-> messages]
          ELSE [threw |-> FALSE, response |-> outcome,
                aiInvokes |-> 1, toolRuns |-> ToolExecutions(outcome),
                modelInput |-> messages]

ChatGuardNone(message) == FALSE

\* if (!message) of the chat handler
ChatGuard(message) == Falsy(message)

\* the promise of the async handler rejects: Express 4 sends nothing and the
\* unhandled rejection ends the process
ChatCatchRethrow(error) == [sent |-> 0, res |-> NoApiResponse, up |-> FALSE]

\* the catch of the chat handler
ChatCatch(error) ==
  Answer(500, [error |-> MessageOr(error, "chat failed")])

\* POST /api/coach/chat
ChatHandler(memberId, message, history, outcome) ==
  IF ChatGuard(message)
  THEN Answer(400, [error |-> Str(<<"message is required">>)])
  ELSE LET result == RunChatGraph(memberId, message, NormalizedHistory(history), outcome)
           seen == [threw |-> result.threw, aiInvokes |-> result.aiInvokes,
                    toolRuns |-> result.toolRuns, modelInput |-> result.modelInput]
       IN IF result.threw
          THEN ChatCatch(result.error) @@ seen
          ELSE Answer(200, [reply |-> TextContent(result.response.content),
                            messages |-> Len(result.modelInput) + 1]) @@ seen

\* req.body.message
ChatMessages ==
  {Undef, Str(<<>>), Str(<<" ">>), Str(<<"My", " ", "plan?">>)}

\* req.body.history
Histories ==
  LET UserTurn == [role |-> Str(<<"user">>), content |-> Str(<<"Hi">>)]
      CoachTurn == [role |-> Str(<<"assistant">>), content |-> Str(<<"Hello">>)]
  IN {Undef,
      Arr(<<Null, UserTurn, CoachTurn>>),
      Arr(<<UserTurn, [role |-> Num(1), content |-> Str(<<"x">>)],
            [role |-> Str(<<"user">>), content |-> Arr(<<>>)], CoachTurn>>)}

\* one request or tool invocation handled: what its caller and the
\* environment saw of it (h), nothing for what it did not touch
Handled(op, input, env, h) ==
  /\ serverUp
  /\ served < MaxServed
  /\ call' = [f \in DOMAIN NoCall |->
                CASE f = "op" -> op
                  [] f = "input" -> input
                  [] f = "env" -> env
                  [] OTHER -> (h @@ NoCall)[f]]
  /\ served' = served + 1
  /\ serverUp' = (h @@ [up |-> TRUE]).up
  /\ threwBefore' = (threwBefore \/ call.threw)

ChatRequest ==
  /\ \E memberId \in {"", "m1"}, message \in ChatMessages,
        history \in Histories, outcome \in ModelOutcomes :
       Handled("chat", [memberId |-> memberId, message |-> message, history |-> history],
               outcome, ChatHandler(memberId, message, history, outcome))
  /\ UNCHANGED <<planVars, sanVars, statsVars, clientVars>>

\* ---------------------------------------------------------- video search
\* the bounds of the tool schema's maxResults and the default of both callers
MinResults == 1
MaxResults == 5
DefaultResults == 3

NaN == [t |-> "NaN"]

Digits == <<"0", "1", "2", "3", "4", "5", "6", "7", "8", "9">>

IsDigits(s) ==
  /\ s # <<>>
  /\ \A i \in 1..Len(s) : \E d \in 1..10 : Digits[d] = s[i]

RECURSIVE DigitsValue(_)
DigitsValue(s) ==
  IF s = <<>> THEN 0
  ELSE 10 * DigitsValue(SubSeq(s, 1, Len(s) - 1))
         + (CHOOSE d \in 1..10 : Digits[d] = s[Len(s)]) - 1

\* Number(text) for the text of a query-string parameter or a stored field
NumberJS(v) ==
  IF v.s = <<>> THEN Num(0)
  ELSE IF IsDigits(v.s) THEN Num(DigitsValue(v.s))
  ELSE IF Head(v.s) = "-" /\ IsDigits(Tail(v.s)) THEN Num(0 - DigitsValue(Tail(v.s)))
  ELSE NaN

\* process.env.YOUTUBE_API_KEY is set, and what fetch() of the YouTube search
\* endpoint does: it rejects, answers a non-OK status, or answers items
VideoEnvs ==
  {[apiKey |-> FALSE, fetch |-> [kind |-> "items", items |-> 0]]} \cup
  {[apiKey |-> TRUE, fetch |-> f] :
     f \in {[kind |-> "reject", items |-> 0], [kind |-> "status", items |-> 0],
            [kind |-> "items", items |-> 0], [kind |-> "items", items |-> 2]}}

\* searchExerciseVideos({ query, maxResults = 3 }): the result object, or the
\* rejection of fetch, and the maxResults parameter of the query it sent
SearchExerciseVideos(query, maxResults, env) ==
  LET count == IF maxResults = Undef THEN Num(DefaultResults) ELSE maxResults
      VideoError(text) == [threw |-> FALSE, error |-> Str(<<text>>), results |-> Undef]
  IN IF ~env.apiKey
     THEN VideoError("no API key") @@ [ytSent |-> <<>>]
     ELSE (CASE env.fetch.kind = "reject" ->
                  [threw |-> TRUE, error |-> Err(Str(<<"ECONNRESET">>)), results |-> Undef]
             [] env.fetch.kind = "status" -> VideoError("search failed")
             [] env.fetch.items = 0 -> VideoError("no results")
             [] OTHER ->
                  [threw |-> FALSE, error |-> Undef,
                   results |-> Arr([i \in 1..env.fetch.items |-> "video"])])
            @@ [ytSent |-> <<count>>]

\* what a tool invocation hands back to its caller
ToolText(text) == [kind |-> "text", text |-> text]
ToolThrows(error) == [kind |-> "thrown", error |-> error]

\* the schema of search_exercise_videos on the arguments the model supplies
VideoToolSchemaOk(query, maxResults) ==
  /\ query.t = "string"
  /\ \/ maxResults = Undef
     \/ /\ maxResults.t = "number"
        /\ maxResults.n >= MinResults
        /\ maxResults.n <= MaxResults

\* search_exercise_videos: schema, then func
SearchExerciseVideosTool(query, maxResults, env) ==
  IF ~VideoToolSchemaOk(query, maxResults)
  THEN [toolOut |-> ToolThrows(Err(Str(<<"invalid tool input">>)))]
  ELSE LET response == SearchExerciseVideos(query, maxResults, env)
       IN [toolOut |-> IF response.threw THEN ToolThrows(response.error)
                       ELSE IF ~Falsy(response.error) THEN ToolText(response.error)
                       ELSE ToolText(Str(response.results.items)),
           ytSent |-> response.ytSent]

\* GET /api/coach/exercises/videos
VideosHandler(q, rawMax, env) ==
  LET maxResults == IF Falsy(rawMax) THEN Undef ELSE NumberJS(rawMax)
  IN IF Falsy(q)
     THEN Answer(400, [error |-> Str(<<"q is required">>)])
     ELSE LET result == SearchExerciseVideos(q, maxResults, env)
              seen == [threw |-> result.threw, ytSent |-> result.ytSent]
          IN IF result.threw
             THEN Answer(500, [error |-> Str(<<"video search failed">>)]) @@ seen
             ELSE IF ~Falsy(result.error)
             THEN Answer(500, [error |-> result.error]) @@ seen
             ELSE Answer(200, [videos |-> result.results]) @@ seen

\* req.query.maxResults, the text of the parameter
RawMaxInputs ==
  {Undef, Str(<<>>), Str(<<"3">>), Str(<<"5">>), Str(<<"0">>),
   Str(<<"5", "0">>), Str(<<"a", "b", "c">>)}

VideosRequest ==
  /\ \E q \in {Undef, Str(<<"squat">>)}, rawMax \in RawMaxInputs, env \in VideoEnvs :
       Handled("videos", [q |-> q, maxResults |-> rawMax], env,
               VideosHandler(q, rawMax, env))
  /\ UNCHANGED <<planVars, sanVars, statsVars, clientVars>>

\* the tool as a runner of tool calls invokes it
SearchVideosToolCall ==
  /\ \E maxResults \in {Undef, Num(0), Num(1), Num(3), Num(5), Num(6)},
        env \in VideoEnvs :
       LET out == SearchExerciseVideosTool(Str(<<"squat">>), maxResults, env)
       IN Handled("search_exercise_videos",
                  [q |-> Str(<<"squat">>), maxResults |-> maxResults], env,
                  out @@ [threw |-> out.toolOut.kind = "thrown"])
  /\ UNCHANGED <<planVars, sanVars, statsVars, clientVars>>

\* ------------------------------------------------------- progress statistics
\* Weights, body fat and muscle mass are counted in hundredths of their unit;
\* a value with one decimal (the result of toFixed(1)) is counted in tenths.
MaxEntries == 3
MaxLogs == 3

\* Number((num / den).toFixed(1)), in tenths: the integer nearest to
\* 10 * num / den; a decimal tie is decided by the binary value of the
\* operand, either way
ToFixed1(num, den, tieUp) ==
  LET size == IF num >= 0 THEN num ELSE 0 - num
      lower == (10 * size) \div den
      rest == (10 * size) % den
      nearest == IF 2 * rest < den THEN lower
                 ELSE IF 2 * rest > den THEN lower + 1
                 ELSE IF tieUp THEN lower + 1 ELSE lower
  IN IF num >= 0 THEN nearest ELSE 0 - nearest

\* parseNumber(value)
ParseNumber(value) ==
  IF value.t = "number" THEN value
  ELSE IF value.t = "string"
  THEN (IF NumberJS(value) = NaN THEN Null ELSE NumberJS(value))
  ELSE Null

WeightDeltaUnrounded(startWeight, latestWeight, tieUp) ==
  IF startWeight # Null /\ latestWeight # Null
  THEN Num(latestWeight.n - startWeight.n)
  ELSE Null

\* weightDelta of summarizeProgress
WeightDelta(startWeight, latestWeight, tieUp) ==
  IF startWeight # Null /\ latestWeight # Null
  THEN Num(ToFixed1(latestWeight.n - startWeight.n, 100, tieUp))
  ELSE Null

RECURSIVE Sum(_)
Sum(values) == IF values = <<>> THEN 0 ELSE Head(values).n + Sum(Tail(values))

\* the average of the numeric values to one decimal, null when there is none
Average1(values, tieUp) ==
  LET numbers == SelectSeq(values, LAMBDA v : v.t = "number")
  IN IF Len(numbers) > 0
     THEN Num(ToFixed1(Sum(numbers), 100 * Len(numbers), tieUp))
     ELSE Null

\* summarizeProgress(entries)
SummarizeProgress(entries, tieUp) ==
  IF Len(entries) = 0
  THEN [startWeight |-> Null, latestWeight |-> Null, weightDelta |-> Null,
        averageBodyFat |-> Null, averageMuscleMass |-> Null]
  ELSE LET OrNull(value) == IF IsNullish(value) THEN Null ELSE value
           startWeight == OrNull(entries[1].weight)
           latestWeight == OrNull(entries[Len(entries)].weight)
       IN [startWeight |-> startWeight,
           latestWeight |-> latestWeight,
           weightDelta |-> WeightDelta(startWeight, latestWeight, tieUp),
           averageBodyFat |-> Average1([i \in 1..Len(entries) |-> entries[i].bodyFat], tieUp),
           averageMuscleMass |-> Average1([i \in 1..Len(entries) |-> entries[i].muscleMass], tieUp)]

RECURSIVE RecentStreakNoBreak(_)
RecentStreakNoBreak(logs) ==
  IF logs = <<>> THEN 0
  ELSE (IF Head(logs).completed THEN 1 ELSE 0) + RecentStreakNoBreak(Tail(logs))

\* the streak loop of summarizeWorkouts, with its break
RECURSIVE RecentStreak(_)
RecentStreak(logs) ==
  IF logs = <<>> THEN 0
  ELSE IF Head(logs).completed THEN 1 + RecentStreak(Tail(logs))
  ELSE 0

\* log.weekLabel ?? 'Recent'
LabelOf(log) ==
  IF IsNullish(log.weekLabel) THEN Str(<<"Recent">>) ELSE log.weekLabel

\* the keys of weekStats in the order the reduce creates them
RECURSIVE CreatedKeys(_, _)
CreatedKeys(logs, seen) ==
  IF logs = <<>> THEN <<>>
  ELSE IF LabelOf(Head(logs)) \in seen THEN CreatedKeys(Tail(logs), seen)
  ELSE <<LabelOf(Head(logs))>>
         \o CreatedKeys(Tail(logs), seen \cup {LabelOf(Head(logs))})

\* a property key that is a canonical array index
IsIntegerKey(key) ==
  /\ IsDigits(key.s)
  /\ Len(key.s) = 1 \/ Head(key.s) # "0"

RECURSIVE AscendingKeys(_)
AscendingKeys(keys) ==
  IF keys = {} THEN <<>>
  ELSE LET least == CHOOSE k \in keys :
                      \A other \in keys : DigitsValue(k.s) <= DigitsValue(other.s)
       IN <<least>> \o AscendingKeys(keys \ {least})

\* the key order of Object.entries on a plain object: integer keys ascending,
\* then the other keys in creation order
ObjectEntriesOrder(keys) ==
  LET integers == SelectSeq(keys, IsIntegerKey)
  IN AscendingKeys({integers[i] : i \in 1..Len(integers)})
       \o SelectSeq(keys, LAMBDA k : ~IsIntegerKey(k))

\* completionRate: Number(((completed / total) * 100).toFixed(1)), in tenths
CompletionRate(completed, total, tieUp) ==
  IF total > 0 THEN ToFixed1(10000 * completed, 100 * total, tieUp) ELSE 0

\* summarizeWorkouts(logs)
SummarizeWorkouts(logs, tieUp) ==
  IF Len(logs) = 0
  THEN [totalSessions |-> 0, completedSessions |-> 0, completionRate |-> 0,
        recentStreak |-> 0, weekBreakdown |-> <<>>]
  ELSE LET completedSessions == Len(SelectSeq(logs, LAMBDA log : log.completed))
           keys == ObjectEntriesOrder(CreatedKeys(logs, {}))
           WeekEntry(key) ==
             LET week == SelectSeq(logs, LAMBDA log : LabelOf(log) = key)
                 completed == Len(SelectSeq(week, LAMBDA log : log.completed))
             IN [weekLabel |-> key, total |-> Len(week), completed |-> completed,
                 completionRate |-> CompletionRate(completed, Len(week), tieUp)]
       IN [totalSessions |-> Len(logs),
           completedSessions |-> completedSessions,
           completionRate |-> CompletionRate(completedSessions, Len(logs), tieUp),
           recentStreak |-> RecentStreak(logs),
           weekBreakdown |-> [i \in 1..Len(keys) |-> WeekEntry(keys[i])]]

\* the result of orderBy('createdAt', 'desc'): ties go by document id
RECURSIVE OrderByCreatedAtDesc(_)
OrderByCreatedAtDesc(docs) ==
  IF docs = {} THEN <<>>
  ELSE LET top == CHOOSE d \in docs :
                    \A e \in docs :
                      \/ e.createdAt < d.createdAt
                      \/ e.createdAt = d.createdAt /\ e.id <= d.id
       IN <<top>> \o OrderByCreatedAtDesc(docs \ {top})

\* where the stable sort with comparator bDate - aDate puts a log
RECURSIVE InsertDesc(_, _)
InsertDesc(log, sorted) ==
  IF sorted = <<>> THEN <<log>>
  ELSE IF Head(sorted).createdAt <= log.createdAt THEN <<log>> \o sorted
  ELSE <<Head(sorted)>> \o InsertDesc(log, Tail(sorted))

\* [...workoutLogsDesc].sort((a, b) => bDate - aDate)
RECURSIVE SortDescStable(_)
SortDescStable(logs) ==
  IF logs = <<>> THEN <<>>
  ELSE InsertDesc(Head(logs), SortDescStable(Tail(logs)))

\* fetchMemberProgressStats(memberId) over the member's stored data: progress
\* entries in recordedAt order, workout logs in document order
FetchMemberProgressStats(memberId, data, tieUp) ==
  LET progressEntries ==
        [i \in 1..Len(data.entries) |->
           [weight |-> ParseNumber(data.entries[i].weight),
            bodyFat |-> ParseNumber(data.entries[i].bodyFat),
            muscleMass |-> ParseNumber(data.entries[i].muscleMass)]]
      snapshot ==
        OrderByCreatedAtDesc({[id |-> i] @@ data.logs[i] : i \in 1..Len(data.logs)})
      workoutLogsDesc ==
        [i \in 1..Len(snapshot) |->
           [id |-> snapshot[i].id,
            weekLabel |-> IF IsNullish(snapshot[i].weekLabel) THEN Str(<<"Week">>)
                          ELSE snapshot[i].weekLabel,
            completed |-> ~Falsy(snapshot[i].completed),
            createdAt |-> snapshot[i].createdAt]]
      workoutLogs == SortDescStable(workoutLogsDesc)
  IN [memberId |-> memberId,
      progressEntries |-> progressEntries,
      progressSummary |-> SummarizeProgress(progressEntries, tieUp),
      workoutLogs |-> workoutLogs,
      workoutSummary |-> SummarizeWorkouts(workoutLogs, tieUp)]

\* ------------------------------------------------ the aggregator on its own
\* the fields of a stored progress entry
EntryInputs ==
  {[weight |-> w] @@ b :
     w \in {Undef, Num(8000), Num(7925), Num(7800), Str(<<"7", "9", "0", "0">>)},
     b \in {[bodyFat |-> Undef, muscleMass |-> Undef],
            [bodyFat |-> Num(2250), muscleMass |-> Num(3010)],
            [bodyFat |-> Num(2000), muscleMass |-> Undef]}}

\* the fields of a stored workout log
LogInputs ==
  [createdAt : {1, 2},
   completed : {Bool(TRUE), Bool(FALSE)},
   weekLabel : {Undef, Str(<<"2">>), Str(<<"1">>), Str(<<"W">>)}]

SeqsUpTo(S, n) == UNION {[1..k -> S] : k \in 0..n}

\* a member's stored data: progress entries or workout logs
StatsInit ==
  /\ InitPlanServer
  /\ plans = EmptyStore
  /\ sanInput = ValidProfile
  /\ sanResult = NotRun
  /\ InitApi
  /\ \/ \E entries \in SeqsUpTo(EntryInputs, MaxEntries) :
          statsIn = [entries |-> entries, logs |-> <<>>]
     \/ \E logs \in SeqsUpTo(LogInputs, MaxLogs) :
          statsIn = [entries |-> <<>>, logs |-> logs]
  /\ statsOut = NoStats
  /\ InitClient

ApplyStats ==
  /\ statsOut = NoStats
  /\ \E tieUp \in BOOLEAN :
       statsOut' = FetchMemberProgressStats("m1", statsIn, tieUp)
  /\ UNCHANGED <<statsIn, planVars, sanVars, apiVars, clientVars>>

StatsSpec == StatsInit /\ [][ApplyStats]_vars

\* ---------------------------------------------------------- get_member_plan
\* JSON.stringify(value)
JsonStringify(value) == [t |-> "json", of |-> value]

EmptyObject == [empty |-> TRUE]

MemberNotFoundText == Str(<<"member not found">>)
NoStoredPlanText == Str(<<"no stored plan">>)

GetMemberPlanOneSentinel(memberId, store, dbFails) ==
  IF memberId = "" \/ memberId \notin DOMAIN store
  THEN ToolText(NoStoredPlanText)
  ELSE ToolText(JsonStringify(PlanField(store[memberId])))

\* the func of createGetMemberPlanTool(memberId)
GetMemberPlan(memberId, store, dbFails) ==
  IF memberId = "" THEN ToolText(MemberNotFoundText)
  ELSE IF dbFails THEN ToolThrows(Err(Str(<<"unavailable">>)))
  ELSE IF PlanDocRef(memberId) \notin DOMAIN store THEN ToolText(NoStoredPlanText)
  ELSE LET plan == PlanField(store[PlanDocRef(memberId)])
       IN ToolText(JsonStringify(IF plan = NoPlan THEN EmptyObject ELSE plan))

GetMemberPlanToolCall ==
  /\ \E memberId \in MemberIdInputs, dbFails \in BOOLEAN :
       LET out == GetMemberPlan(memberId, plans, dbFails)
       IN Handled("get_member_plan", [memberId |-> memberId], [dbFails |-> dbFails],
                  [toolOut |-> out, threw |-> out.kind = "thrown"])
  /\ UNCHANGED <<planVars, sanVars, statsVars, clientVars>>

\* ------------------------------------------------- the other two handlers
\* what the users collection holds for a member
StoredData(memberId) ==
  IF memberId = "m1"
  THEN [entries |-> <<[weight |-> Num(8000), bodyFat |-> Num(2250), muscleMass |-> Undef],
                      [weight |-> Num(7925), bodyFat |-> Undef, muscleMass |-> Undef]>>,
        logs |-> <<[createdAt |-> 1, completed |-> Bool(TRUE), weekLabel |-> Str(<<"1">>)],
                   [createdAt |-> 2, completed |-> Bool(FALSE), weekLabel |-> Str(<<"2">>)]>>]
  ELSE NoStatsIn

\* the catch of the stats handler
StatsCatch(error) ==
  Answer(500, [error |-> MessageOr(error, "stats failed")])

\* GET /api/coach/members/:memberId/stats
StatsHandler(rawMemberId, dbFails, tieUp) ==
  LET memberId == Str(Trim(rawMemberId.s))
  IN IF Falsy(memberId)
     THEN Answer(400, [error |-> Str(<<"memberId is required">>)])
     ELSE IF dbFails
     THEN StatsCatch(Err(Str(<<"unavailable">>))) @@ [threw |-> TRUE]
     ELSE Answer(200, [stats |-> FetchMemberProgressStats(memberId.s[1],
                                   StoredData(memberId.s[1]), tieUp)])

StatsRequest ==
  /\ \E rawMemberId \in {Str(<<" ">>), Str(<<"m1", " ">>), Str(<<"m2">>)},
        dbFails \in BOOLEAN, tieUp \in BOOLEAN :
       Handled("stats", [memberId |-> rawMemberId], [dbFails |-> dbFails],
               StatsHandler(rawMemberId, dbFails, tieUp))
  /\ UNCHANGED <<planVars, sanVars, statsVars, clientVars>>

\* how one pass of the plan graph ends: the first node that throws, if any
PlanGraphFailure(profile, answer, writeFails) ==
  IF ~SanitizeProfile(profile).ok THEN "validation"
  ELSE IF answer = UpstreamFailure THEN "upstream"
  ELSE IF ~FitnessPlanSchemaOk(answer) THEN "schema"
  ELSE IF writeFails THEN "persistence"
  ELSE "none"

\* the catch of the generate-plan handler
PlanCatch(error) ==
  Answer(500, [error |-> MessageOr(error, "plan generation failed")])

\* POST /api/coach/generate-plan, the pass through the plan graph included
GeneratePlanHandler(memberId, profile, answer, writeFails) ==
  IF memberId = "" \/ profile = NoProfile
  THEN Answer(400, [error |-> Str(<<"memberId and profile are required">>)])
         @@ [written |-> FALSE]
  ELSE LET failure == PlanGraphFailure(profile, answer, writeFails)
       IN IF failure # "none"
          THEN PlanCatch(Err(Str(<<failure>>)))
                 @@ [threw |-> TRUE,
                     aiInvokes |-> IF failure = "validation" THEN 0 ELSE 1,
                     written |-> FALSE]
          ELSE Answer(200, [plan |-> answer])
                 @@ [aiInvokes |-> 1, written |-> TRUE]

GeneratePlanRequest ==
  /\ \E memberId \in {"", "m1"}, profile \in RequestProfiles,
        answer \in {UpstreamFailure, PlanA, PlanZeroDays}, writeFails \in BOOLEAN :
       LET h == GeneratePlanHandler(memberId, profile, answer, writeFails)
       IN /\ Handled("generate-plan", [memberId |-> memberId, profile |-> profile],
                     [answer |-> answer, writeFails |-> writeFails], h)
          /\ IF h.written
             THEN /\ now' = now + 1
                  /\ plans' = ApplyWrite(plans, memberId, answer, now')
             ELSE UNCHANGED <<now, plans>>
  /\ UNCHANGED <<pc, awaiting, state, completion, stamp, res, cause, trace, aiCalls,
                 writes, lastWriter>>
  /\ UNCHANGED <<sanVars, statsVars, clientVars>>

\* the plans collection before the requests, a document that carries no plan
\* field included
ApiStores == InitStores \cup {[d \in {"m1"} |-> [f \in {"note"} |-> "legacy"]]}

ApiInit ==
  /\ InitPlanServer
  /\ plans \in ApiStores
  /\ sanInput = ValidProfile
  /\ sanResult = NotRun
  /\ InitApi
  /\ InitStats
  /\ InitClient

ApiNext ==
  \/ GeneratePlanRequest
  \/ ChatRequest
  \/ StatsRequest
  \/ VideosRequest
  \/ GetMemberPlanToolCall
  \/ SearchVideosToolCall

ApiSpec == ApiInit /\ [][ApiNext]_vars

\* ------------------------------------------------------------ the member App
\* A profile is "p" or "none" (null); a plan is named by the member it was
\* made for, or is "none" (null).  Accounts are members: for an owner the
\* App returns the owner dashboard before renderContent is reached.

\* the dependency list of the plan effect (isMember follows from the user)
Deps(a) == <<a.user, a.memberProfile, a.planOwnerId, a.fitnessPlan, a.isGeneratingPlan>>

\* React runs the effect after a commit whose dependencies differ from
\* those of its last run, and before it handles any other event
EffectPending == app.lastDeps # Deps(app)

\* renderContent: the dashboard without a plan or a profile becomes 'error'
RenderContent(a) ==
  IF a.appState = "dashboard" /\ (a.fitnessPlan = "none" \/ a.userProfile = "none")
  THEN [a EXCEPT !.appState = "error"]
  ELSE a

Cleared(a) == [a EXCEPT !.fitnessPlan = "none", !.planOwnerId = "none"]

\* the plan effect: the cleanup of its last run cancels the load that run
\* started, and a cancelled load changes nothing when it settles; the tests
\* read the values of the render the effect belongs to
PlanEffect ==
  /\ EffectPending
  /\ LET a == [app EXCEPT !.lastDeps = Deps(app), !.load = "none"]
         m == [a EXCEPT !.userProfile = a.memberProfile]
         c == IF a.planOwnerId # "none" /\ a.planOwnerId # a.user THEN Cleared(m) ELSE m
     IN app' = RenderContent(
          IF a.user = "none" \/ a.memberProfile = "none"
          THEN [Cleared(a) EXCEPT !.userProfile = "none", !.appState = "onboarding"]
          ELSE IF a.planOwnerId = a.user /\ a.fitnessPlan # "none"
          THEN [c EXCEPT !.appState = "dashboard"]
          ELSE IF a.isGeneratingPlan
          THEN [c EXCEPT !.appState = "loading"]
          ELSE [c EXCEPT !.appState = "loading", !.load = a.user])
  /\ UNCHANGED <<serverVars, fetched, resv, gymStore, kakao>>

\* loadStoredPlan resumes after getStoredPlanForMember, not cancelled
LoadSettles ==
  /\ ~EffectPending
  /\ app.load # "none"
  /\ LET storedPlan == app.stored[app.load]
     IN app' = RenderContent(
          IF storedPlan # "none"
          THEN [app EXCEPT !.load = "none", !.fitnessPlan = storedPlan,
                           !.planOwnerId = app.load, !.appState = "dashboard"]
          ELSE [Cleared(app) EXCEPT !.load = "none", !.appState = "onboarding"])
  /\ UNCHANGED <<serverVars, fetched, resv, gymStore, kakao>>

\* the onboarding form is completed: handleOnboardingComplete up to its first await
HandleOnboardingComplete ==
  /\ ~EffectPending
  /\ app.appState = "onboarding"
  /\ app.user # "none"
  /\ app' = [app EXCEPT !.isGeneratingPlan = TRUE, !.appState = "loading",
                        !.userProfile = "p",
                        !.gens = @ \cup {[m |-> app.user, stage |-> "profile"]}]
  /\ UNCHANGED <<serverVars, fetched, resv, gymStore, kakao>>

\* updateMemberProfile settles: the document is written and the account in
\* memory gets the profile, or updateDoc rejects and the catch block runs
UpdateProfileSettles ==
  /\ ~EffectPending
  /\ \E g \in app.gens, ok \in BOOLEAN :
       /\ g.stage = "profile"
       /\ app' = RenderContent(
            IF ok
            THEN [app EXCEPT !.docs[g.m] = "p",
                             !.memberProfile = IF app.user = "none" THEN @ ELSE "p",
                             !.gens = (@ \ {g}) \cup {[g EXCEPT !.stage = "generate"]}]
            ELSE [app EXCEPT !.appState = "error", !.isGeneratingPlan = FALSE,
                             !.gens = @ \ {g}])
  /\ UNCHANGED <<serverVars, fetched, resv, gymStore, kakao>>

\* generateFitnessPlan resolves: the rest of the try block and the finally
\* block; the server has stored the plan unless the plan is the fallback
GenerationSettles ==
  /\ ~EffectPending
  /\ \E g \in app.gens, persisted \in BOOLEAN :
       /\ g.stage = "generate"
       /\ app' = RenderContent(
            [app EXCEPT !.fitnessPlan = g.m, !.planOwnerId = g.m,
                        !.appState = "dashboard", !.isGeneratingPlan = FALSE,
                        !.gens = @ \ {g},
                        !.stored[g.m] = IF persisted THEN g.m ELSE @])
  /\ UNCHANGED <<serverVars, fetched, resv, gymStore, kakao>>

HandleRetry ==
  /\ ~EffectPending
  /\ app.appState = "error"
  /\ app.user # "none"
  /\ app' = [Cleared(app) EXCEPT !.appState = "onboarding", !.userProfile = "none",
                                 !.isGeneratingPlan = FALSE]
  /\ UNCHANGED <<serverVars, fetched, resv, gymStore, kakao>>

\* onAuthStateChanged without a user
SignOut ==
  /\ ~EffectPending
  /\ app.user # "none"
  /\ app' = [app EXCEPT !.user = "none", !.memberProfile = "none"]
  /\ UNCHANGED <<serverVars, fetched, resv, gymStore, kakao>>

\* the first snapshot of the user document after a sign-in
SignIn ==
  /\ ~EffectPending
  /\ app.user = "none"
  /\ \E m \in Members : app' = [app EXCEPT !.user = m, !.memberProfile = app.docs[m]]
  /\ UNCHANGED <<serverVars, fetched, resv, gymStore, kakao>>

AppInit ==
  /\ InitServer
  /\ \E d \in [Members -> {"none", "p"}], withPlan \in SUBSET Members :
       app = [AppIdle EXCEPT !.docs = d,
                             !.stored = [m \in Members |-> IF m \in withPlan THEN m ELSE "none"]]
  /\ fetched = NoFetch
  /\ resv = NoReservations
  /\ gymStore = NoGyms
  /\ kakao = KakaoIdle

AppNext ==
  \/ PlanEffect
  \/ LoadSettles
  \/ HandleOnboardingComplete
  \/ UpdateProfileSettles
  \/ GenerationSettles
  \/ HandleRetry
  \/ SignOut
  \/ SignIn

AppSpec == AppInit /\ [][AppNext]_vars

\* ------------------------------------------ the client's generateFitnessPlan
FallbackDays ==
  <<"Monday", "Tuesday", "Wednesday", "Thursday", "Friday", "Saturday", "Sunday">>

\* getFallbackPlan (exercises and meals by their names)
GetFallbackPlan ==
  [workoutPlan |->
     [i \in DOMAIN FallbackDays |->
        [day |-> FallbackDays[i],
         focus |-> IF (i - 1) % 2 = 0 THEN "Full Body" ELSE "Cardio & Rest",
         exercises |-> <<"Bodyweight Squats", "Push-ups", "Plank">>]],
   dietPlan |->
     [i \in DOMAIN FallbackDays |->
        [day |-> FallbackDays[i],
         meals |-> <<"Oatmeal & Fruit", "Chicken Salad", "Salmon & Vegetables", "Greek Yogurt">>,
         dailyTotal |-> 1600]]]

\* a response body that is no JSON: response.json() rejects
Unparsable == [unparsable |-> TRUE]

\* what fetch settles with: it rejects, or resolves with a response
FetchRejected == [rejected |-> TRUE, ok |-> FALSE, body |-> Unparsable]
Response(status, body) == [rejected |-> FALSE, ok |-> status \in 200..299, body |-> body]

\* generateFitnessPlan without its catch block
GenerateFitnessPlanNoCatch(fetch) ==
  LET body == fetch.body
      thrown == \/ fetch.rejected
                \/ ~fetch.ok
                \/ body = Unparsable
                \/ body = Null
                \/ "plan" \notin DOMAIN body
                \/ body.plan = Null
  IN IF thrown THEN [settled |-> "rejected", plan |-> NoPlan]
     ELSE [settled |-> "resolved", plan |-> body.plan]

\* generateFitnessPlan, from what fetch settled with: every throw of the try
\* block is caught and answered with the fallback plan
\* (payload?.plan: the bodies drawn carry a plan object, null or no plan)
GenerateFitnessPlan(fetch) ==
  LET body == fetch.body
      thrown == \/ fetch.rejected
                \/ ~fetch.ok
                \/ body = Unparsable
                \/ body = Null
                \/ "plan" \notin DOMAIN body
                \/ body.plan = Null
  IN [settled |-> "resolved", plan |-> IF thrown THEN GetFallbackPlan ELSE body.plan]

\* One call against the coach server.  The request is not sent ("down"), or
\* the server handles it and its answer is lost ("lost") or delivered, or
\* something else answers in the server's place ("foreign").
GenerateFitnessPlanCall ==
  /\ fetched = NoFetch
  /\ \E memberId \in MemberIdInputs, profile \in RequestProfiles,
        answer \in {UpstreamFailure, PlanA, PlanZeroDays}, writeFails \in BOOLEAN,
        net \in {"down", "lost", "delivered", "foreign"},
        foreign \in {Response(200, Unparsable), Response(200, Null), Response(200, EmptyObject),
                     Response(200, [plan |-> Null]), Response(502, Unparsable)} :
       LET h == GeneratePlanHandler(memberId, profile, answer, writeFails)
           reached == net \in {"lost", "delivered"}
           fetch == CASE net = "delivered" -> Response(h.res.status, h.res.body)
                      [] net = "foreign" -> foreign
                      [] OTHER -> FetchRejected
       IN /\ fetched' = [memberId |-> memberId, profile |-> profile, net |-> net,
                         fetch |-> fetch,
                         result |-> GenerateFitnessPlan(fetch)]
          /\ IF reached /\ h.written
             THEN /\ now' = now + 1
                  /\ plans' = ApplyWrite(plans, memberId, answer, now')
             ELSE UNCHANGED <<now, plans>>
  /\ UNCHANGED <<pc, awaiting, state, completion, stamp, res, cause, trace, aiCalls,
                 writes, lastWriter>>
  /\ UNCHANGED <<sanVars, apiVars, statsVars, app, resv, gymStore, kakao>>

\* the plans collection is the one the plan graph starts from
ClientSpec == Init /\ [][GenerateFitnessPlanCall]_vars

\* ------------------------------------------------------ the reservation screen
\* the screens as mounted and the collections empty
AtRest == InitServer /\ InitClient

\* One gym and one day: every reservation is for today at the selected gym.
\* Each signed-in member has a screen of their own; the collection is shared.
Equipment == {"e1", "e2"}
TimeSlots == {"09:00", "09:30"}

\* availableTimeSlots: the slots of the operating range that no reservation
\* of the screen's list holds for the selected equipment today
AvailableTimeSlots(reservations, equipmentId) ==
  TimeSlots \ {r.timeSlot : r \in {x \in reservations : x.equipmentId = equipmentId}}

\* the member picks a piece of equipment and one of the slots offered for it
SelectTime ==
  /\ \E m \in Members, eq \in Equipment :
       \E time \in AvailableTimeSlots(resv.list[m], eq) :
         resv' = [resv EXCEPT !.selected[m] = <<eq, time>>]
  /\ UNCHANGED <<serverVars, app, fetched, gymStore, kakao>>

\* handleBook: addDoc stores a document under a fresh id, whatever the
\* collection holds, and the selection is cleared; or addDoc rejects
HandleBook ==
  /\ Len(resv.docs) < MaxReservations
  /\ \E m \in Members, ok \in BOOLEAN :
       /\ resv.selected[m] # <<>>
       /\ resv' = IF ok
                  THEN [resv EXCEPT
                          !.docs = Append(@, [gymId |-> "g1", equipmentId |-> resv.selected[m][1],
                                              timeSlot |-> resv.selected[m][2], date |-> "today",
                                              memberId |-> m]),
                          !.selected[m] = <<>>]
                  ELSE resv
  /\ UNCHANGED <<serverVars, app, fetched, gymStore, kakao>>

\* onSnapshot of the member's query (memberId == currentUser.id, date >=
\* today) delivers the collection as it is now; the effect on
\* availableTimeSlots drops a selected time that is no longer offered
SnapshotArrives ==
  /\ \E m \in Members :
       LET next == {resv.docs[i] : i \in {j \in DOMAIN resv.docs : resv.docs[j].memberId = m}}
           sel == resv.selected[m]
       IN /\ next # resv.list[m]
          /\ resv' = [resv EXCEPT
                        !.list[m] = next,
                        !.selected[m] =
                           IF sel # <<>> /\ sel[2] \notin AvailableTimeSlots(next, sel[1])
                           THEN <<>> ELSE sel]
  /\ UNCHANGED <<serverVars, app, fetched, gymStore, kakao>>

ReservationNext ==
  \/ SelectTime
  \/ HandleBook
  \/ SnapshotArrives

ReservationSpec == AtRest /\ [][ReservationNext]_vars

\* -------------------------------------------------------------- the gym store
\* gymStore.docs maps the ids of the documents of 'gyms' to their fields;
\* addDoc picks ids 1, 2, ... and never reuses one.  A call that is past
\* its getDoc and before its write is in gymStore.pending.
Owners == {"o1", "o2"}
GymNames == {"none", "a", "b"}

\* what updateGym and deleteGym find after getDoc; no owner test at all
OwnerCheckNone(docs, ownerId, gymId) ==
  IF gymId \notin DOMAIN docs THEN "missing" ELSE "ok"

\* what updateGym and deleteGym find after getDoc
OwnerCheck(docs, ownerId, gymId) ==
  IF gymId \notin DOMAIN docs THEN "missing"
  ELSE IF docs[gymId].ownerId # ownerId THEN "forbidden"
  ELSE "ok"

\* a call settles
Settled(op, ownerId, gymId, outcome) ==
  [n |-> gymStore.last.n + 1, op |-> op, ownerId |-> ownerId, gymId |-> gymId,
   outcome |-> outcome]

CreateGym ==
  /\ gymStore.last.n < MaxGymCalls
  /\ \E ownerId \in Owners, name \in GymNames \ {"none"} :
       LET id == gymStore.nextId
           document == [ownerId |-> ownerId, name |-> name,
                        createdAt |-> gymStore.clock, updatedAt |-> gymStore.clock]
       IN gymStore' = [gymStore EXCEPT
                         !.docs = [g \in DOMAIN @ \cup {id} |-> IF g = id THEN document ELSE @[g]],
                         !.nextId = @ + 1, !.clock = @ + 1,
                         !.last = Settled("create", ownerId, id, "resolved")]
  /\ UNCHANGED <<serverVars, app, fetched, resv, kakao>>

\* updateGym up to updateDoc: getDoc, the two throws, the update payload
UpdateGym ==
  /\ gymStore.last.n + Cardinality(gymStore.pending) < MaxGymCalls
  /\ \E ownerId \in Owners, gymId \in 1..gymStore.nextId, name \in GymNames :
       gymStore' =
         IF OwnerCheck(gymStore.docs, ownerId, gymId) = "ok"
         THEN [gymStore EXCEPT
                 !.clock = @ + 1,
                 !.pending = @ \cup {[op |-> "update", ownerId |-> ownerId, gymId |-> gymId,
                                      name |-> name, updatedAt |-> gymStore.clock]}]
         ELSE [gymStore EXCEPT !.last = Settled("update", ownerId, gymId, "rejected")]
  /\ UNCHANGED <<serverVars, app, fetched, resv, kakao>>

\* deleteGym up to deleteDoc: getDoc, the silent return for a missing
\* document, the throw
DeleteGym ==
  /\ gymStore.last.n + Cardinality(gymStore.pending) < MaxGymCalls
  /\ \E ownerId \in Owners, gymId \in 1..gymStore.nextId :
       LET found == OwnerCheck(gymStore.docs, ownerId, gymId)
       IN gymStore' =
            IF found = "ok"
            THEN [gymStore EXCEPT
                    !.pending = @ \cup {[op |-> "delete", ownerId |-> ownerId, gymId |-> gymId,
                                         name |-> "none", updatedAt |-> 0]}]
            ELSE [gymStore EXCEPT
                    !.last = Settled("delete", ownerId, gymId,
                                     IF found = "missing" THEN "resolved" ELSE "rejected")]
  /\ UNCHANGED <<serverVars, app, fetched, resv, kakao>>

\* updateDoc changes the fields of the payload and rejects when the
\* document is gone
UpdateGymWrites ==
  /\ \E c \in gymStore.pending :
       /\ c.op = "update"
       /\ gymStore' =
            IF c.gymId \in DOMAIN gymStore.docs
            THEN [gymStore EXCEPT
                    !.docs[c.gymId] = [@ EXCEPT !.updatedAt = c.updatedAt,
                                                !.name = IF c.name = "none" THEN @ ELSE c.name],
                    !.pending = @ \ {c},
                    !.last = Settled("update", c.ownerId, c.gymId, "resolved")]
            ELSE [gymStore EXCEPT
                    !.pending = @ \ {c},
                    !.last = Settled("update", c.ownerId, c.gymId, "rejected")]
  /\ UNCHANGED <<serverVars, app, fetched, resv, kakao>>

\* deleteDoc removes the document, if it is still there
DeleteGymWrites ==
  /\ \E c \in gymStore.pending :
       /\ c.op = "delete"
       /\ gymStore' = [gymStore EXCEPT
                         !.docs = [g \in DOMAIN @ \ {c.gymId} |-> @[g]],
                         !.pending = @ \ {c},
                         !.last = Settled("delete", c.ownerId, c.gymId, "resolved")]
  /\ UNCHANGED <<serverVars, app, fetched, resv, kakao>>

GymNext ==
  \/ CreateGym
  \/ UpdateGym
  \/ DeleteGym
  \/ UpdateGymWrites
  \/ DeleteGymWrites

GymSpec == AtRest /\ [][GymNext]_vars

\* ------------------------------------------------------ the Kakao SDK loader
\* kakao.maps is window.kakao.maps: "none", "uninit" once the SDK script has
\* run, "ready" once the callback of maps.load has fired.  kakao.promise is
\* kakaoMapsPromise (0: null), an index into kakao.promises.  A promise is
\* at "script" (waiting for the load or error event), at "init" (waiting for
\* the callback of maps.load), "resolved" or "rejected"; it is live when its
\* listeners were attached while the script was still loading.  A caller's
\* via is the promise it was handed, 0 when it was handed the maps object at
\* once, -1 when the call threw for the missing key.

Pending(p) == p.stage \in {"script", "init"}

\* the .catch of the chain: the cached promise is cleared
Rejected(k, ps) ==
  [k EXCEPT !.promise = 0, !.failed = TRUE,
            !.promises = [i \in DOMAIN @ |-> IF i \in ps THEN [@[i] EXCEPT !.stage = "rejected"] ELSE @[i]]]

\* the promises whose listeners the next event of the script reaches
Listening == {i \in DOMAIN kakao.promises : kakao.promises[i].stage = "script" /\ kakao.promises[i].live}

\* loadKakaoMaps is called: the maps object at once, the cached promise, a
\* throw for the missing key, or a new chain on appendKakaoScript, which
\* appends a script element unless the document has one
LoadKakaoMaps ==
  /\ Len(kakao.callers) < MaxCalls
  /\ \E site \in {"Chatbot", "ReservationScreen"} :
     LET caller(via) ==
           [site |-> site, via |-> via, got |-> kakao.maps, afterFailure |-> kakao.failed,
            pending |-> IF kakao.promise # 0 /\ Pending(kakao.promises[kakao.promise])
                        THEN kakao.promise ELSE 0]
         new == Len(kakao.promises) + 1
     IN kakao' =
          IF kakao.maps # "none"
          THEN [kakao EXCEPT !.callers = Append(@, caller(0))]
          ELSE IF kakao.promise # 0
          THEN [kakao EXCEPT !.callers = Append(@, caller(kakao.promise))]
          ELSE IF ~kakao.appKey
          THEN [kakao EXCEPT !.callers = Append(@, caller(-1))]
          ELSE [kakao EXCEPT
                  !.callers = Append(@, caller(new)),
                  !.promise = new,
                  !.promises = Append(@, [stage |-> "script",
                                          live |-> kakao.script \in {"none", "loading"}]),
                  !.script = IF @ = "none" THEN "loading" ELSE @,
                  !.scripts = IF kakao.script = "none" THEN @ + 1 ELSE @]
  /\ UNCHANGED <<serverVars, app, fetched, resv, gymStore>>

\* the load event of the script: the SDK has defined window.kakao.maps, or
\* it has not; the listeners resolve, and the chain calls maps.load or rejects
ScriptLoads ==
  /\ kakao.script = "loading"
  /\ \E defined \in BOOLEAN :
       LET k == [kakao EXCEPT !.script = "loaded", !.maps = IF defined THEN "uninit" ELSE "none"]
       IN kakao' =
            IF defined
            THEN [k EXCEPT !.promises = [i \in DOMAIN @ |->
                             IF i \in Listening THEN [@[i] EXCEPT !.stage = "init"] ELSE @[i]]]
            ELSE IF Listening # {} THEN Rejected(k, Listening) ELSE k
  /\ UNCHANGED <<serverVars, app, fetched, resv, gymStore>>

\* the error event of the script
ScriptFails ==
  /\ kakao.script = "loading"
  /\ kakao' = [(IF Listening # {} THEN Rejected(kakao, Listening) ELSE kakao)
                 EXCEPT !.script = "failed"]
  /\ UNCHANGED <<serverVars, app, fetched, resv, gymStore>>

\* the callback of maps.load fires: it resolves with window.kakao.maps, or
\* rejects when the object is gone
InitCompletes ==
  /\ \E ok \in BOOLEAN :
       LET inits == {i \in DOMAIN kakao.promises : kakao.promises[i].stage = "init"}
       IN /\ inits # {}
          /\ kakao' =
               IF ok
               THEN [kakao EXCEPT !.maps = "ready",
                                  !.promises = [i \in DOMAIN @ |->
                                     IF i \in inits THEN [@[i] EXCEPT !.stage = "resolved"] ELSE @[i]]]
               ELSE [Rejected(kakao, inits) EXCEPT !.maps = "none"]
  /\ UNCHANGED <<serverVars, app, fetched, resv, gymStore>>

KakaoInit ==
  /\ InitServer
  /\ app = AppIdle
  /\ fetched = NoFetch
  /\ resv = NoReservations
  /\ gymStore = NoGyms
  /\ \E appKey \in BOOLEAN : kakao = [KakaoIdle EXCEPT !.appKey = appKey]

KakaoNext ==
  \/ LoadKakaoMaps
  \/ ScriptLoads
  \/ ScriptFails
  \/ InitCompletes

KakaoSpec == KakaoInit /\ [][KakaoNext]_vars

\* the browser delivers the event of a loading script, and the SDK calls
\* the callback of maps.load
KakaoLiveSpec ==
  /\ KakaoSpec
  /\ WF_vars(ScriptLoads \/ ScriptFails)
  /\ WF_vars(InitCompletes)

\* ================================================================= claims
Responded(r) == pc[r] = "responded"

Succeeded(r) == Responded(r) /\ res[r].status = 200

PipelineOrder == <<"sanitizeProfile", "buildPrompt", "generatePlan", "persistPlan">>

IsPrefix(s, t) == Len(s) <= Len(t) /\ SubSeq(t, 1, Len(s)) = s

\* C1: in every run the steps execute in the order SanitizeProfile,
\* BuildPrompt, RequestCompletion, PersistPlan, Done: the finished steps are
\* always a prefix of that order (none twice, none out of turn), a step is
\* entered only when exactly its predecessors have finished, and a run that
\* reaches Done or answers 200 has finished all four.
C1_FixedOrder ==
  \A r \in Runs :
    /\ IsPrefix(trace[r], PipelineOrder)
    /\ \A i \in 1..Len(PipelineOrder) :
         pc[r] = PipelineOrder[i] => Len(trace[r]) = i - 1
    /\ (pc[r] = "__end__" \/ res[r].status = 200) => trace[r] = PipelineOrder

C1_Witness == \E r \in Runs : Succeeded(r) /\ trace[r] = PipelineOrder

InvalidProfileRun(r) ==
  /\ pc[r] # "idle"
  /\ state[r].memberId # ""
  /\ state[r].profile # NoProfile
  /\ ~SanitizeProfile(state[r].profile).ok

\* C3: a run whose profile fails sanitization ends with an error at the
\* sanitize step: no completion request is sent for it and it issues no write,
\* so the member's stored plan document is not changed by it.
C3_SanitizeFailureAborts ==
  \A r \in Runs :
    InvalidProfileRun(r) =>
      /\ pc[r] \in {"sanitizeProfile", "responded"}
      /\ aiCalls[r] = 0
      /\ writes[r] = 0
      /\ lastWriter[state[r].memberId] # r
      /\ Responded(r) => (res[r].error /\ res[r].status # 200 /\ cause[r] = "validation")

C3_Witness ==
  \E r \in Runs :
    /\ InvalidProfileRun(r)
    /\ Responded(r)
    /\ state[r].memberId \in DOMAIN plans

BadCompletion(r) ==
  /\ completion[r] # NoCompletion
  /\ (completion[r] = UpstreamFailure \/ ~FitnessPlanSchemaOk(completion[r]))

\* C4: when the completion call errors or its output fails the schema, the run
\* ends with an error answered to the caller, has sent exactly one completion
\* request and has issued no write.
C4_CompletionFailureNoRetryNoWrite ==
  \A r \in Runs :
    BadCompletion(r) =>
      /\ Responded(r)
      /\ res[r].error
      /\ res[r].status = 500
      /\ aiCalls[r] = 1
      /\ writes[r] = 0
      /\ lastWriter[state[r].memberId] # r

C4_Witness ==
  \E r1, r2 \in Runs :
    /\ completion[r1] = UpstreamFailure /\ Responded(r1)
    /\ completion[r2] = PlanNoDiet /\ Responded(r2)

PlanInvariant(p) ==
  /\ Len(p.workoutPlan) >= 1
  /\ Len(p.dietPlan) >= 1
  /\ \A i \in 1..Len(p.workoutPlan) : Len(p.workoutPlan[i].exercises) >= 1

\* C5: every plan the pipeline persists or returns has at least one workout
\* day and one diet day and no workout day without exercises; a completion
\* that breaks this is never stored and never returned.
C5_PlanInvariant ==
  /\ \A r \in Runs :
       /\ res[r].status = 200 => PlanInvariant(res[r].plan)
       /\ writes[r] > 0 => PlanInvariant(state[r].plan)
       /\ (completion[r] \notin {NoCompletion, UpstreamFailure}
           /\ ~PlanInvariant(completion[r])) =>
             (writes[r] = 0 /\ res[r].status # 200 /\ state[r].plan = NoPlan)
  /\ \A m \in Members :
       lastWriter[m] # 0 => (m \in DOMAIN plans /\ PlanInvariant(PlanField(plans[m])))

C5_Witness ==
  \E r1, r2 \in Runs :
    /\ completion[r1] \in {PlanZeroDays, PlanEmptyExercises} /\ Responded(r1)
    /\ Succeeded(r2) /\ lastWriter[state[r2].memberId] = r2

\* C6 (as claimed): every plan returned with a 200 has exactly 7 workoutPlan
\* entries and exactly 7 dietPlan entries.
C6_SevenEntries ==
  \A r \in Runs :
    Succeeded(r) =>
      (Len(res[r].plan.workoutPlan) = PlanDays /\ Len(res[r].plan.dietPlan) = PlanDays)

\* C7: once a run's write for a member has been applied, the collection holds
\* a document under that member's id whose plan field is the plan of the run
\* whose write was applied last, which is the plan that run returns; no
\* document exists under any other key.
C7_OneDocumentLastWriteWins ==
  /\ DOMAIN plans \subseteq Members
  /\ \A m \in Members :
       lastWriter[m] # 0 =>
         /\ m \in DOMAIN plans
         /\ PlanField(plans[m]) = state[lastWriter[m]].plan
         /\ Succeeded(lastWriter[m]) => res[lastWriter[m]].plan = PlanField(plans[m])

C7_Witness ==
  \E r1, r2 \in Runs :
    /\ r1 # r2
    /\ Succeeded(r1) /\ Succeeded(r2)
    /\ state[r1].memberId = state[r2].memberId
    /\ res[r1].plan # res[r2].plan
    /\ lastWriter[state[r1].memberId] = r1

WriteLanding(r, d) ==
  /\ pc[r] = "persistPlan"
  /\ awaiting[r]
  /\ pc'[r] = "__end__"
  /\ state[r].memberId = d

\* C8: a step changes a plans document only as the landing write of a run of
\* that member, and then only its plan and updatedAt fields: every other field
\* stored under the key keeps its value, and no document disappears.
C8_FrameEffect ==
  [][/\ DOMAIN plans \subseteq DOMAIN plans'
     /\ \A d \in DOMAIN plans' :
          (d \notin DOMAIN plans \/ plans'[d] # plans[d]) =>
            /\ \E r \in Runs : WriteLanding(r, d)
            /\ d \in DOMAIN plans =>
                 \A f \in DOMAIN plans[d] \ (PlanLeaves \cup {"updatedAt"}) :
                   f \in DOMAIN plans'[d] /\ plans'[d][f] = plans[d][f]]_vars

C8_Witness ==
  \E m \in Members :
    /\ lastWriter[m] # 0
    /\ "note" \in DOMAIN plans[m]
    /\ PlanField(plans[m]) = PlanShort
    /\ \E o \in Members \ {m} : o \in DOMAIN plans /\ lastWriter[o] = 0

Applied == sanResult # NotRun

Absent(v) == v = Undef

PositiveNumber(v) == v.t = "number" /\ v.n > 0

BodyFatInRange(v) == v.t = "number" /\ v.n >= 0 /\ v.n <= 100

\* C9 (as claimed): the sanitizer accepts exactly the inputs with positive
\* height and weight and bodyFat absent or within 0..100.
C9_AcceptsOnHeightWeightBodyFat ==
  Applied =>
    (sanResult.ok <=>
       /\ PositiveNumber(sanInput.height)
       /\ PositiveNumber(sanInput.weight)
       /\ (Absent(sanInput.bodyFat) \/ BodyFatInRange(sanInput.bodyFat)))

TextOrNullish(v) == v.t \in {"undefined", "null", "string"}

GoalNotBlank(v) ==
  \/ v.t \in {"undefined", "null", "number"}
  \/ (v.t = "string" /\ \E i \in 1..Len(v.s) : v.s[i] # " ")

PreferenceKnown(v) == Absent(v) \/ v \in {Str(<<"home">>), Str(<<"gym">>)}

\* C9 (amended): the sanitizer rejects every input in which height or weight
\* is missing or not a positive number and every bodyFat outside 0..100; it
\* accepts an input exactly when, besides positive height and weight and a
\* bodyFat absent or within 0..100, the goal is absent or not blank, the
\* workoutPreference is absent or one of home and gym, and healthConditions
\* and availableEquipment are absent, null or strings.
C9_SanitizerAccepts ==
  Applied =>
    (sanResult.ok <=>
       /\ PositiveNumber(sanInput.height)
       /\ PositiveNumber(sanInput.weight)
       /\ (Absent(sanInput.bodyFat) \/ BodyFatInRange(sanInput.bodyFat))
       /\ GoalNotBlank(sanInput.goal)
       /\ PreferenceKnown(sanInput.workoutPreference)
       /\ TextOrNullish(sanInput.healthConditions)
       /\ TextOrNullish(sanInput.availableEquipment))

C9_Witness ==
  /\ Applied
  /\ sanResult.ok
  /\ sanInput.bodyFat = Num(100)
  /\ sanInput.goal = Str(<<" ", "custom", " ">>)
  /\ sanResult.profile.goal = Str(<<"custom">>)
  /\ sanResult.profile.workoutPreference = Str(<<"home">>)
  /\ Absent(sanInput.workoutPreference)

\* C10 (as claimed): a request rejected for malformed or missing caller input
\* is answered with a 400-class status.
C10_ValidationAnswered400 ==
  \A r \in Runs :
    (Responded(r) /\ cause[r] \in {"missing", "validation"}) =>
      (res[r].status >= 400 /\ res[r].status < 500)

\* the aggregator has run on the stored data
StatsDone == statsOut # NoStats

Abs(n) == IF n < 0 THEN 0 - n ELSE n

\* C16: summarizeProgress returns all five summary fields null for an empty
\* entry list; otherwise startWeight is the weight of the first entry,
\* latestWeight that of the last entry, and weightDelta is latestWeight minus
\* startWeight rounded to one decimal (null when either weight is missing).
C16_SummarizeProgress ==
  StatsDone =>
    LET entries == statsOut.progressEntries
        summary == statsOut.progressSummary
    IN IF entries = <<>>
       THEN /\ summary.startWeight = Null
            /\ summary.latestWeight = Null
            /\ summary.weightDelta = Null
            /\ summary.averageBodyFat = Null
            /\ summary.averageMuscleMass = Null
       ELSE LET first == entries[1].weight
                last == entries[Len(entries)].weight
            IN /\ summary.startWeight = first
               /\ summary.latestWeight = last
               /\ IF first # Null /\ last # Null
                  THEN /\ summary.weightDelta # Null
                       /\ Abs(10 * summary.weightDelta.n - (last.n - first.n)) <= 5
                  ELSE summary.weightDelta = Null

\* weights 80, 79, 78 give -2.0
C16_Witness ==
  /\ StatsDone
  /\ Len(statsIn.entries) = 3
  /\ statsIn.entries[1].weight = Num(8000)
  /\ statsIn.entries[2].weight = Str(<<"7", "9", "0", "0">>)
  /\ statsIn.entries[3].weight = Num(7800)
  /\ statsOut.progressSummary.weightDelta = Num(-20)

\* the logs the aggregator summarises are the stored ones, newest first
NewestFirst(logs) ==
  /\ Len(logs) = Len(statsIn.logs)
  /\ {logs[i].id : i \in 1..Len(logs)} = 1..Len(statsIn.logs)
  /\ \A i \in 1..Len(logs) :
       /\ logs[i].createdAt = statsIn.logs[logs[i].id].createdAt
       /\ logs[i].completed = (statsIn.logs[logs[i].id].completed = Bool(TRUE))
  /\ \A i, j \in 1..Len(logs) : i < j => logs[i].createdAt >= logs[j].createdAt

\* k sessions from the newest on are completed and the next one is not
CompletedPrefix(logs, k) ==
  /\ \A i \in 1..k : logs[i].completed
  /\ k = Len(logs) \/ ~logs[k + 1].completed

\* C17: recentStreak is the length of the longest prefix of completed sessions
\* of the workout logs in descending creation-time order: counting stops at
\* the first incomplete session.
C17_RecentStreak ==
  StatsDone =>
    LET logs == statsOut.workoutLogs
        streak == statsOut.workoutSummary.recentStreak
    IN /\ NewestFirst(logs)
       /\ streak \in 0..Len(logs)
       /\ CompletedPrefix(logs, streak)

\* done, not-done, done (newest first, stored oldest first) gives 1
C17_Witness ==
  /\ StatsDone
  /\ Len(statsIn.logs) = 3
  /\ statsIn.logs[1].createdAt < statsIn.logs[3].createdAt
  /\ statsOut.workoutLogs[1].completed
  /\ ~statsOut.workoutLogs[2].completed
  /\ statsOut.workoutLogs[3].completed
  /\ statsOut.workoutSummary.recentStreak = 1

FirstIndex(logs, label) ==
  CHOOSE i \in 1..Len(logs) :
    /\ logs[i].weekLabel = label
    /\ \A j \in 1..(i - 1) : logs[j].weekLabel # label

\* C18: weekBreakdown has exactly one entry per distinct weekLabel among the
\* logs, in the order in which each label first occurs in the log sequence,
\* each with the counts of that label's logs.
C18_FirstOccurrenceOrder ==
  StatsDone =>
    LET logs == statsOut.workoutLogs
        weeks == statsOut.workoutSummary.weekBreakdown
        Of(label) == {i \in 1..Len(logs) : logs[i].weekLabel = label}
    IN /\ {weeks[i].weekLabel : i \in 1..Len(weeks)} = {logs[i].weekLabel : i \in 1..Len(logs)}
       /\ \A i, j \in 1..Len(weeks) :
            i < j => FirstIndex(logs, weeks[i].weekLabel) < FirstIndex(logs, weeks[j].weekLabel)
       /\ \A i \in 1..Len(weeks) :
            /\ weeks[i].total = Cardinality(Of(weeks[i].weekLabel))
            /\ weeks[i].completed =
                 Cardinality({k \in Of(weeks[i].weekLabel) : logs[k].completed})

HttpOps == {"generate-plan", "chat", "stats", "videos"}

Status(n) == call.res.status = n

ErrorBody == "error" \in DOMAIN call.res.body /\ call.res.body.error.t = "string"

EmptyOrAbsent(message) == message \in {Undef, Null, Str(<<>>)}

\* C11: a chat request whose message is empty or absent is answered with the
\* validation error (400 and an error body) whatever memberId and history it
\* carries, without any call to the AI provider and without any tool run.
C11_EmptyMessageRejected ==
  (call.op = "chat" /\ EmptyOrAbsent(call.input.message)) =>
    /\ call.sent = 1
    /\ Status(400)
    /\ ErrorBody
    /\ call.aiInvokes = 0
    /\ call.toolRuns = 0
    /\ call.modelInput = <<>>

C11_Witness ==
  /\ call.op = "chat"
  /\ call.input.message = Str(<<>>)
  /\ call.input.memberId = "m1"
  /\ call.input.history # Undef
  /\ Status(400)

\* C12: in a chat turn whose model response requests tool invocations, the
\* requested tools are executed before the turn ends and the reply returned to
\* the caller is a non-empty string.
C12_RequestedToolsRun ==
  (call.op = "chat" /\ Status(200) /\ call.env.tool_calls # <<>>) =>
    /\ call.toolRuns >= Len(call.env.tool_calls)
    /\ call.res.body.reply.t = "string"
    /\ call.res.body.reply # Str(<<>>)

\* the search got past the tool's schema and failed
SearchFailed ==
  /\ call.op = "search_exercise_videos"
  /\ VideoToolSchemaOk(call.input.q, call.input.maxResults)
  /\ \/ ~call.env.apiKey
     \/ call.env.fetch.kind \in {"reject", "status"}
     \/ call.env.fetch.items = 0

\* C13: a failure of the video search behind search_exercise_videos (missing
\* API key, non-OK status, network failure, zero results) comes back as a
\* text sentinel and is never raised to the caller of the tool.
C13_SearchFailureIsText ==
  SearchFailed =>
    /\ call.toolOut.kind = "text"
    /\ call.toolOut.text.t = "string"
    /\ ~call.threw

GetMemberPlanRead == call.op = "get_member_plan" /\ ~call.env.dbFails

StoredPlanOf(doc) ==
  IF PlanLeaves \subseteq DOMAIN doc
  THEN [workoutPlan |-> doc["plan.workoutPlan"], dietPlan |-> doc["plan.dietPlan"]]
  ELSE EmptyObject

\* C14 as stated: get_member_plan returns the serialized stored plan when the
\* member has a plan document, and one and the same "no plan" sentinel both
\* when no plan is stored and when memberId is absent.
C14_OneSentinel ==
  call.op = "get_member_plan" =>
    /\ (call.input.memberId = "" \/ call.input.memberId \notin DOMAIN plans) =>
         call.toolOut = ToolText(NoStoredPlanText)
    /\ (GetMemberPlanRead /\ call.input.memberId \in DOMAIN plans) =>
         call.toolOut = ToolText(JsonStringify(StoredPlanOf(plans[call.input.memberId])))

\* C14: when the read succeeds, get_member_plan returns the serialized plan
\* field of the member's document ({} when the document has none) and the
\* "no plan" sentinel when the member has no document; when memberId is
\* absent it returns a different sentinel, "member not found", without
\* reading the store.
C14_GetMemberPlan ==
  /\ MemberNotFoundText # NoStoredPlanText
  /\ call.op = "get_member_plan" =>
       /\ call.input.memberId = "" => call.toolOut = ToolText(MemberNotFoundText)
       /\ (GetMemberPlanRead /\ call.input.memberId \in Members \ DOMAIN plans) =>
            call.toolOut = ToolText(NoStoredPlanText)
       /\ (GetMemberPlanRead /\ call.input.memberId \in DOMAIN plans) =>
            call.toolOut = ToolText(JsonStringify(StoredPlanOf(plans[call.input.memberId])))

C14_Witness ==
  /\ call.op = "get_member_plan"
  /\ call.input.memberId = ""
  /\ call.env.dbFails
  /\ call.toolOut = ToolText(MemberNotFoundText)

\* C15: every query sent to the video-search API, through the tool or through
\* the GET route, carries a result count within 1..5, and exactly 3 when the
\* caller supplied none.
C15_CountWithinBounds ==
  \A i \in 1..Len(call.ytSent) :
    /\ call.ytSent[i].t = "number"
    /\ call.ytSent[i].n \in 1..5
    /\ Falsy(call.input.maxResults) => call.ytSent[i] = Num(3)

\* C19: every request to an /api/coach endpoint gets exactly one response; an
\* exception raised while it is handled is answered with status 500 and a
\* body {error: string}; the server stays up and serves the next request.
C19_OneResponseServerUp ==
  /\ serverUp
  /\ call.op \in HttpOps =>
       /\ call.sent = 1
       /\ call.res.status \in {200, 400, 500}
       /\ call.threw => Status(500) /\ ErrorBody
       /\ ~Status(200) => ErrorBody

C19_Witness ==
  /\ threwBefore
  /\ served = 2
  /\ call.op \in HttpOps
  /\ call.threw
  /\ call.sent = 1
  /\ Status(500)

\* C20: two concurrent runs for the same member each send their own
\* completion request and perform their own write, and the stored plan is,
\* leaf by leaf, the plan of the run whose write was applied last (possibly
\* the run whose write was issued first), never a mixture of two plans.
C20_ConcurrentRunsLastWriteWins ==
  \A r1, r2 \in Runs :
    (r1 # r2 /\ Succeeded(r1) /\ Succeeded(r2)
       /\ state[r1].memberId = state[r2].memberId) =>
      LET m == state[r1].memberId
          last == lastWriter[m]
      IN /\ aiCalls[r1] = 1 /\ aiCalls[r2] = 1
         /\ writes[r1] = 1 /\ writes[r2] = 1
         /\ last \in Runs
         /\ state[last].memberId = m /\ writes[last] = 1
         /\ m \in DOMAIN plans
         /\ PlanField(plans[m]) = state[last].plan
         /\ last \in {r1, r2} => PlanField(plans[m]) = res[last].plan

\* the write issued first was applied last, over the other run's plan
C20_Witness ==
  \E r1, r2 \in Runs :
    /\ r1 # r2
    /\ Succeeded(r1) /\ Succeeded(r2)
    /\ state[r1].memberId = state[r2].memberId
    /\ res[r1].plan.dietPlan # res[r2].plan.dietPlan
    /\ stamp[r1] < stamp[r2]
    /\ lastWriter[state[r1].memberId] = r1
    /\ PlanField(plans[state[r1].memberId]) = res[r1].plan

\* the history items the handler forwards: those with a string role and a
\* string content, in their order
ForwardedHistory(history) ==
  IF history.t # "array" THEN <<>>
  ELSE LET kept == SelectSeq(history.items,
                     LAMBDA item : /\ item # Null
                                   /\ item.role.t = "string"
                                   /\ item.content.t = "string")
       IN [i \in 1..Len(kept) |-> [role |-> kept[i].role, content |-> kept[i].content]]

\* C21: the message sequence given to the model in a chat turn is the fixed
\* system instruction, then the history items that carry a string role and a
\* string content in their original order, then the new user message.
C21_ModelInputSequence ==
  (call.op = "chat" /\ call.aiInvokes > 0) =>
    call.modelInput =
      <<[role |-> Str(<<"system">>), content |-> SYSTEM_PROMPT]>>
        \o ForwardedHistory(call.input.history)
        \o <<[role |-> Str(<<"user">>), content |-> call.input.message]>>

C21_Witness ==
  /\ call.op = "chat"
  /\ call.aiInvokes = 1
  /\ call.input.history # Undef
  /\ Len(call.input.history.items) = 4
  /\ Len(call.modelInput) = 4
  /\ call.modelInput[2].role = Str(<<"user">>)
  /\ call.modelInput[3].role = Str(<<"assistant">>)

\* the dashboard is on screen with a plan (renderContent's first branch of 'dashboard')
DashboardShown ==
  /\ app.user # "none"
  /\ app.appState = "dashboard"
  /\ app.fitnessPlan # "none"
  /\ app.userProfile # "none"

\* C22: whenever the member App shows the dashboard with a plan, the plan is
\* the signed-in member's: planOwnerId equals the current memberId, also when
\* the account changed while a load or a generation of the previous member
\* was in flight.
C22_DashboardPlanOfMember == DashboardShown => app.planOwnerId = app.user

\* C23: while isGeneratingPlan is true the app state is 'loading', so the
\* onboarding form is not on screen and no second generation can be started.
C23_LoadingWhileGenerating == app.isGeneratingPlan => app.appState = "loading"

\* C24: once the app state is 'error' it stays 'error' until handleRetry
\* runs; no effect moves the App out of the error screen.
C24_ErrorUntilRetry ==
  [][(app.appState = "error" /\ ~HandleRetry) => app'.appState = "error"]_vars

\* the fetch of the call failed, was answered not-OK, or carried no plan
FetchFailed ==
  \/ fetched.fetch.rejected
  \/ ~fetched.fetch.ok
  \/ fetched.fetch.body \in {Unparsable, Null, EmptyObject, [plan |-> Null]}

\* C25: generateFitnessPlan never rejects; on a network error, a non-OK
\* response or a response without a plan it resolves with the fallback plan
\* of 7 workout days and 7 diet days, and the fallback plan is in no document
\* of the plans store.
C25_FallbackNeverRejects ==
  fetched # NoFetch =>
    /\ fetched.result.settled = "resolved"
    /\ FetchFailed =>
         /\ fetched.result.plan = GetFallbackPlan
         /\ Len(fetched.result.plan.workoutPlan) = 7
         /\ Len(fetched.result.plan.dietPlan) = 7
    /\ \A id \in DOMAIN plans : PlanField(plans[id]) # GetFallbackPlan

C25_Witness ==
  /\ fetched # NoFetch
  /\ fetched.net = "lost"
  /\ fetched.result.plan = GetFallbackPlan
  /\ fetched.memberId \in DOMAIN plans
  /\ PlanField(plans[fetched.memberId]) = PlanA

\* C26: no two reservation documents exist for the same gym, equipment, date
\* and time slot, for any members and any interleaving of bookings and
\* snapshot updates.
C26_NoDoubleBooking ==
  \A i, j \in DOMAIN resv.docs :
    i # j =>
      <<resv.docs[i].gymId, resv.docs[i].equipmentId, resv.docs[i].date, resv.docs[i].timeSlot>>
        # <<resv.docs[j].gymId, resv.docs[j].equipmentId, resv.docs[j].date, resv.docs[j].timeSlot>>

\* the call that settled in this step, if one did
JustSettled == gymStore'.last.n # gymStore.last.n

\* C27: updateGym and deleteGym change or remove a gym document only when
\* the caller's ownerId equals the ownerId stored in it; with another
\* ownerId they fail and the document is unchanged; and no step changes
\* the ownerId or the createdAt of a document.
C27_OwnerOnly ==
  [][\A id \in DOMAIN gymStore.docs :
       LET doc == gymStore.docs[id]
           done == gymStore'.last
       IN /\ (id \notin DOMAIN gymStore'.docs \/ gymStore'.docs[id] # doc) =>
               /\ JustSettled
               /\ done.op \in {"update", "delete"}
               /\ done.gymId = id
               /\ done.ownerId = doc.ownerId
               /\ done.outcome = "resolved"
          /\ (JustSettled /\ done.op \in {"update", "delete"} /\ done.gymId = id
                /\ done.ownerId # doc.ownerId) =>
               /\ done.outcome = "rejected"
               /\ gymStore'.docs = gymStore.docs
          /\ id \in DOMAIN gymStore'.docs =>
               /\ gymStore'.docs[id].ownerId = doc.ownerId
               /\ gymStore'.docs[id].createdAt = doc.createdAt]_vars

C27_Witness ==
  /\ gymStore.last.op = "update"
  /\ gymStore.last.outcome = "rejected"
  /\ gymStore.last.gymId \in DOMAIN gymStore.docs
  /\ gymStore.docs[gymStore.last.gymId].ownerId # gymStore.last.ownerId
  /\ gymStore.docs[gymStore.last.gymId].updatedAt > gymStore.docs[gymStore.last.gymId].createdAt

\* the promise a caller holds has settled
CallerSettled(i) ==
  /\ i \in DOMAIN kakao.callers
  /\ kakao.callers[i].via \in DOMAIN kakao.promises => ~Pending(kakao.promises[kakao.callers[i].via])

\* C28: for any overlapping loadKakaoMaps calls, at most one SDK script
\* element is appended, and every caller that arrives while the load is
\* pending gets the pending promise.
C28_OneScriptSharedPromise ==
  /\ kakao.scripts <= 1
  /\ \A i \in DOMAIN kakao.callers :
       kakao.callers[i].pending # 0 => kakao.callers[i].via = kakao.callers[i].pending

\* C29: loadKakaoMaps never resolves with the maps object before the
\* callback of maps.load has fired.
C29_ResolvedAfterInit ==
  /\ \A i \in DOMAIN kakao.callers :
       kakao.callers[i].via = 0 => kakao.callers[i].got = "ready"
  /\ \A p \in DOMAIN kakao.promises :
       kakao.promises[p].stage = "resolved" => kakao.maps = "ready"

\* C30: every loadKakaoMaps call made after a load has failed eventually
\* settles.
C30_LaterCallsSettle ==
  \A i \in 1..MaxCalls :
    (i \in DOMAIN kakao.callers /\ kakao.callers[i].afterFailure) ~> CallerSettled(i)

====
